---- MODULE Spec2Model ----
(***************************************************************************)
(* MorningStar portfolio server: ledger, valuation, price cache and the    *)
(* Bybit reconciliation import (server/app/routers/portfolios.py,          *)
(* server/app/routers/market.py, server/app/db.py, server/app/orm_models). *)
(*                                                                         *)
(* Fixed-point units: quantities are whole coins, prices are multiples of  *)
(* 1/PriceScale USD, 24h change fractions are multiples of 1/PcntScale,    *)
(* balance_usd / pnl_day_usd are cents.  Strings that the code normalises  *)
(* (strip / upper) are sequences of one-character strings.                 *)
(***************************************************************************)
EXTENDS Integers, Sequences, FiniteSets, TLC

\* ------------------------------------------------------------------ bounds
MaxTx == 2          \* rows the tx table may hold

\* ------------------------------------------------------- program constants
TTL == 2            \* _TTL, seconds
PriceScale == 10000 \* prices are carried in units of 0.0001 USD
PcntScale == 100    \* price24hPcnt is carried in units of 0.01
THRESH == PriceScale \div 2          \* Decimal("0.5") in price units

\* ----------------------------------------------------------------- strings
SP == " "
USDT == <<"U", "S", "D", "T">>
USDC == <<"U", "S", "D", "C">>
DAI == <<"D", "A", "I">>
BTC == <<"B", "T", "C">>
DOGE == <<"D", "O", "G", "E">>
EmptyStr == <<>>

LowerToUpper ==
    [a |-> "A", b |-> "B", c |-> "C", d |-> "D", e |-> "E", g |-> "G",
     i |-> "I", o |-> "O", s |-> "S", t |-> "T", u |-> "U"]

UpperChar(ch) == IF ch \in DOMAIN LowerToUpper THEN LowerToUpper[ch] ELSE ch

\* str.upper()
Upper(s) == [k \in 1..Len(s) |-> UpperChar(s[k])]

RECURSIVE LStrip(_)
LStrip(s) == IF s # <<>> /\ Head(s) = SP THEN LStrip(Tail(s)) ELSE s

RECURSIVE RStrip(_)
RStrip(s) ==
    IF s # <<>> /\ s[Len(s)] = SP THEN RStrip(SubSeq(s, 1, Len(s) - 1)) ELSE s

\* str.strip()
Strip(s) == RStrip(LStrip(s))

\* x.strip().upper()
StripUpper(s) == Upper(Strip(s))

\* str.endswith(suffix)
EndsWith(s, suffix) ==
    /\ Len(s) >= Len(suffix)
    /\ SubSeq(s, Len(s) - Len(suffix) + 1, Len(s)) = suffix

\* ----------------------------------------------------------- wire numerics
\* A numeric field of an upstream JSON answer: a decimal string ("num"), a
\* missing key ("absent"), an empty string ("blank") or garbage ("bad").
Num(n) == [kind |-> "num", v |-> n]
Absent == [kind |-> "absent", v |-> 0]
Blank == [kind |-> "blank", v |-> 0]
Bad == [kind |-> "bad", v |-> 0]

\* _d0(x): absent, blank and malformed all become Decimal("0")
D0(x) == IF x.kind = "num" THEN x.v ELSE 0

\* `x or "0"` on a wire string: None and "" are falsy
OrZero(x) == IF x.kind \in {"absent", "blank"} THEN Num(0) ELSE x

Abs(n) == IF n < 0 THEN -n ELSE n

\* ties are rounded towards zero
Q2HalfDown(n, d) ==
    LET m == (2 * Abs(n) + d - 1) \div (2 * d)
    IN IF n < 0 THEN -m ELSE m

\* _q2 on the exact rational n/d, result in cents' units of 1/d': the callers
\* pass d = (units of n) per cent.  ROUND_HALF_UP rounds ties away from zero.
Q2(n, d) ==
    LET m == (2 * Abs(n) + d) \div (2 * d)
    IN IF n < 0 THEN -m ELSE m

\* ------------------------------------------------------------------ domain
Users == {"u1", "u2"}
PortfolioIds == {"p1", "p2"}
AssetSymbols == {BTC, DOGE}
PriceSymbols == AssetSymbols \cup {USDC}
AssetIds == 1..Cardinality(PriceSymbols)
TxIds == 1..MaxTx
NoId == 0
Categories == {"spot", "linear"}
TxTypes == {"buy", "sell", "transfer_in", "transfer_out"}

Pair(sym) == sym \o USDT
CacheKeys == {<<cat, Pair(sym)>> : cat \in Categories, sym \in PriceSymbols}

NoData == [lastPrice |-> Num(0), price24hPcnt |-> Num(0)]

VARIABLES
    portfolios,   \* committed rows of table portfolios: id -> row
    assets,       \* committed rows of table assets: id -> row
    txs,          \* committed rows of table tx: id -> row
    cache,        \* market._cache: (category, symbol) -> (ts, data)
    now,          \* time.time(), whole seconds
    req,          \* the reconciliation request: where it is, what it was sent
    last          \* the answer of the last finished request

vars == <<portfolios, assets, txs, cache, now, req, last>>

\* ------------------------------------------------------------- ORM session
\* A Session of SessionLocal: the rows its transaction sees (committed rows
\* plus what it has flushed) and the unit of work it has not flushed yet.
NewSession ==
    [portfolios |-> portfolios, assets |-> assets, txs |-> txs,
     new_txs |-> <<>>, dirty_tx |-> <<>>, deleted_tx |-> {},
     dirty_p |-> <<>>]

RECURSIVE SortedSeq(_)
SortedSeq(S) ==
    IF S = {} THEN <<>>
    ELSE LET m == CHOOSE x \in S : \A y \in S : x <= y
         IN <<m>> \o SortedSeq(S \ {m})

FreeId(used, ids) == CHOOSE x \in ids \ used : \A y \in ids \ used : x <= y

RECURSIVE InsertTxs(_, _)
InsertTxs(table, pending) ==
    IF pending = <<>> THEN table
    ELSE InsertTxs((FreeId(DOMAIN table, TxIds) :> Head(pending)) @@ table,
                   Tail(pending))

\* Session.flush(): INSERT the pending objects, UPDATE the dirty ones,
\* DELETE the ones marked deleted.
Flush(s) ==
    LET kept == DOMAIN s.txs \ s.deleted_tx
        updated == [t \in kept |->
                       IF t \in DOMAIN s.dirty_tx THEN s.dirty_tx[t] ELSE s.txs[t]]
    IN [s EXCEPT
          !.txs = InsertTxs(updated, s.new_txs),
          !.portfolios = [p \in DOMAIN s.portfolios |->
                             IF p \in DOMAIN s.dirty_p THEN s.dirty_p[p]
                             ELSE s.portfolios[p]],
          !.new_txs = <<>>, !.dirty_tx = <<>>, !.deleted_tx = {},
          !.dirty_p = <<>>]

\* sessionmaker(autoflush=False): a query does not flush the unit of work
AutoFlush == FALSE

BeforeQuery(s) == IF AutoFlush THEN Flush(s) ELSE s

\* The object a query hands back for a row: the instance of the identity map
\* when the session already holds one (its in-memory attributes are kept).
TxObjectReloaded(s, t) == s.txs[t]

TxObject(s, t) == IF t \in DOMAIN s.dirty_tx THEN s.dirty_tx[t] ELSE s.txs[t]

\* select(TxORM).join(AssetORM).where(AssetORM.portfolio_id == pid): the WHERE
\* runs in the database, on the rows as flushed.
QueryTxIds(s0, pid) ==
    LET s == BeforeQuery(s0)
    IN SortedSeq({t \in DOMAIN s.txs :
                    /\ s.txs[t].asset_id \in DOMAIN s.assets
                    /\ s.assets[s.txs[t].asset_id].portfolio_id = pid})

\* select(AssetORM).where(AssetORM.portfolio_id == pid)
QueryAssetIds(s0, pid) ==
    LET s == BeforeQuery(s0)
    IN SortedSeq({a \in DOMAIN s.assets : s.assets[a].portfolio_id = pid})

\* db.get(PortfolioORM, pid)
GetPortfolio(s, pid) ==
    IF pid \in DOMAIN s.dirty_p THEN s.dirty_p[pid] ELSE s.portfolios[pid]

\* ------------------------------------------------------------- price cache
\* An answer of the external price source to get_tickers(category, symbol).
ExtQuote(key) ==
    IF key[2] = Pair(BTC)
    THEN IF key[1] = "spot"
         THEN [lastPrice |-> Num(100050), price24hPcnt |-> Num(10)]
         ELSE [lastPrice |-> Num(100000), price24hPcnt |-> Num(-5)]
    ELSE IF key[1] = "spot"
         THEN [lastPrice |-> Num(10), price24hPcnt |-> Num(-5)]
         ELSE [lastPrice |-> Num(11), price24hPcnt |-> Absent]

Raised == [kind |-> "raise", retCode |-> 0, retMsg |-> "", list |-> <<>>]
RetErr == [kind |-> "answer", retCode |-> 10001, retMsg |-> "params error",
           list |-> <<>>]
NoList == [kind |-> "answer", retCode |-> 0, retMsg |-> "OK", list |-> <<>>]
Listed(key) == [kind |-> "answer", retCode |-> 0, retMsg |-> "OK",
                list |-> <<ExtQuote(key)>>]

\* the same listing a moment later: the price has moved, the 24h change is
\* sent as an empty string
Relisted(key) ==
    [kind |-> "answer", retCode |-> 0, retMsg |-> "OK",
     list |-> <<[lastPrice |-> Num(ExtQuote(key).lastPrice.v + 1),
                 price24hPcnt |-> Blank]>>]

\* the listing with a lastPrice that is no decimal string
Malformed(key) ==
    [kind |-> "answer", retCode |-> 0, retMsg |-> "OK",
     list |-> <<[lastPrice |-> Bad, price24hPcnt |-> ExtQuote(key).price24hPcnt]>>]

\* The price source as one request finds it: the answer to each lookup.
\* q, p, b, e, x, r: listed, listed at the moved price, listed with a
\* malformed price, empty list, retCode # 0, the client raises.
Answers(key, how) ==
    CASE how = "q" -> Listed(key)
      [] how = "p" -> Relisted(key)
      [] how = "b" -> Malformed(key)
      [] how = "e" -> NoList
      [] how = "x" -> RetErr
      [] how = "r" -> Raised

Market(btcSpot, btcLinear, dogeSpot, dogeLinear) ==
    [key \in CacheKeys |->
        Answers(key, IF key[2] = Pair(BTC)
                     THEN (IF key[1] = "spot" THEN btcSpot ELSE btcLinear)
                     ELSE IF key[2] = Pair(DOGE)
                     THEN (IF key[1] = "spot" THEN dogeSpot ELSE dogeLinear)
                     ELSE "e")]

ExtMarkets ==
    { Market("q", "q", "e", "q"),     \* BTC on spot, DOGE on linear only
      Market("x", "q", "e", "x"),     \* BTC spot and DOGE linear are refused
      Market("e", "e", "e", "q"),     \* BTC listed nowhere
      Market("q", "q", "r", "q") }    \* the DOGE spot lookup times out

\* the entry is served whatever its age up to and including the TTL
FreshAtTTL(c, t, key) == key \in DOMAIN c /\ (t - c[key].ts) <= TTL

\* `hit and (now - hit[0]) < _TTL`
Fresh(c, t, key) == key \in DOMAIN c /\ (t - c[key].ts) < TTL

\* no answer counts as refused
RefusedNever(r) == FALSE

\* `r.get("retCode") != 0`
Refused(r) == r.retCode # 0

\* the empty answer is remembered under the key as a quote of zero
NotFoundCached(c, t, key) == (key :> [ts |-> t, data |-> NoData]) @@ c

\* lines 52-53, `if not lst: return None`: the cache is what it was
AfterNotFound(c, t, key) == c

\* fetch_ticker(category, symbol) against the cache c at time t, with ext the
\* answers the price source would give (nothing is listed under a symbol it
\* does not know).  kind: "ticker" (a BybitTicker), "none" (None), "err502"
\* (HTTPException 502, with its detail), "raise" (the client raised); keys:
\* the cache keys looked up; calls: the external calls made.
FetchTicker(c, t, ext, category, symbol) ==
    LET key == <<category, symbol>>
        out(kind, data, cch, calls, detail) ==
            [kind |-> kind, data |-> data, cache |-> cch, calls |-> calls,
             keys |-> <<key>>, detail |-> detail]
    IN IF Fresh(c, t, key)
       THEN out("ticker", c[key].data, c, 0, <<>>)
       ELSE LET r == IF key \in DOMAIN ext THEN ext[key] ELSE NoList
            IN IF r.kind = "raise"
               THEN out("raise", NoData, c, 1, <<>>)
               ELSE IF Refused(r)
               THEN out("err502", NoData, c, 1, <<"Bybit error: ", r.retMsg>>)
               ELSE IF r.list = <<>>
               THEN out("none", NoData, AfterNotFound(c, t, key), 1, <<>>)
               ELSE LET it == r.list[1]
                        data == [lastPrice |-> OrZero(it.lastPrice),
                                 price24hPcnt |-> OrZero(it.price24hPcnt)]
                    IN out("ticker", data,
                           (key :> [ts |-> t, data |-> data]) @@ c, 1, <<>>)

\* the linear answer, with the keys looked up and the calls made by both
Both(first, second) ==
    [second EXCEPT !.calls = first.calls + second.calls,
                   !.keys = first.keys \o second.keys]

\* `first or fetch_ticker("linear", symbol)`
OrLinear(first, t, ext, symbol) ==
    IF first.kind = "none"
    THEN Both(first, FetchTicker(first.cache, t, ext, "linear", symbol))
    ELSE first

\* fetch_ticker("spot", symbol) or fetch_ticker("linear", symbol)
SpotOrLinear(c, t, ext, symbol) ==
    OrLinear(FetchTicker(c, t, ext, "spot", symbol), t, ext, symbol)

\* -------------------------------------------------------------- valuation
\* a fold that keeps the signed quantity of the last row of each asset
RECURSIVE FoldPositionsOverwrite(_, _)
FoldPositionsOverwrite(rows, pos) ==
    IF rows = <<>> THEN pos
    ELSE LET r == Head(rows)
             nxt == IF r.type \in {"buy", "transfer_in"}
                    THEN r.quantity ELSE 0 - r.quantity
         IN FoldPositionsOverwrite(Tail(rows), (r.asset_id :> nxt) @@ pos)

\* The fold of _recalc_portfolio_market_metrics lines 119-124 (and of
\* _positions_by_asset): a defaultdict asset_id -> signed quantity.
RECURSIVE FoldPositions(_, _)
FoldPositions(rows, pos) ==
    IF rows = <<>> THEN pos
    ELSE LET r == Head(rows)
             cur == IF r.asset_id \in DOMAIN pos THEN pos[r.asset_id] ELSE 0
             nxt == IF r.type \in {"buy", "transfer_in"}
                    THEN cur + r.quantity
                    ELSE cur - r.quantity
         IN FoldPositions(Tail(rows), (r.asset_id :> nxt) @@ pos)

\* every asset is looked up, whatever its position
NoPositionNever(qty) == FALSE

\* line 136: `if qty == 0: continue`
NoPosition(qty) == qty = 0

\* the loop ends at the first asset without a quote
StopAtUnpriced(todo) == <<>>

\* lines 143-144: `if not t: continue`, on to the next asset
SkipUnpriced(todo) == Tail(todo)

\* The loop over the portfolio's assets, lines 134-150.  acc carries the
\* running totals (price units, price*pcnt units), the cache, the calls
\* made and the cache keys looked up so far; status leaves "ok" when a lookup or a Decimal() raises.
RECURSIVE RecalcLoop(_, _, _, _, _, _)
RecalcLoop(s, todo, pos, acc, t, ext) ==
    IF todo = <<>> \/ acc.status # "ok" THEN acc
    ELSE LET a == Head(todo)
             qty == IF a \in DOMAIN pos THEN pos[a] ELSE 0
             symbol == Pair(StripUpper(s.assets[a].symbol))
             tk == SpotOrLinear(acc.cache, t, ext, symbol)
             seen == [acc EXCEPT !.cache = tk.cache,
                                 !.calls = acc.calls + tk.calls,
                                 !.keys = acc.keys \o tk.keys]
         IN IF NoPosition(qty) THEN RecalcLoop(s, Tail(todo), pos, acc, t, ext)
            ELSE IF tk.kind \in {"err502", "raise"}
            THEN [seen EXCEPT !.status = tk.kind]
            ELSE IF tk.kind = "none"
            THEN RecalcLoop(s, SkipUnpriced(todo), pos, seen, t, ext)
            ELSE LET lastw == OrZero(tk.data.lastPrice)
                     pcntw == OrZero(tk.data.price24hPcnt)
                 IN IF lastw.kind # "num" \/ pcntw.kind # "num"
                    THEN [seen EXCEPT !.status = "raise"]
                    ELSE RecalcLoop(s, Tail(todo), pos,
                           [seen EXCEPT
                              !.balance = acc.balance + qty * lastw.v,
                              !.pnl = acc.pnl + qty * lastw.v * pcntw.v],
                           t, ext)

\* _recalc_portfolio_market_metrics(db, pid): the session after it, the
\* cache after it, how it ended, the positions it folded and the cache keys
\* it looked up.
Recalc(s, pid, c, t, ext) ==
    IF pid \notin DOMAIN s.portfolios
    THEN [status |-> "ok", sess |-> s, cache |-> c, calls |-> 0,
          keys |-> <<>>, pos |-> <<>>]
    ELSE LET ids == QueryTxIds(s, pid)
             rows == [k \in 1..Len(ids) |-> TxObject(s, ids[k])]
             pos == FoldPositions(rows, <<>>)
             acc == RecalcLoop(s, QueryAssetIds(s, pid), pos,
                      [status |-> "ok", balance |-> 0, pnl |-> 0,
                       cache |-> c, calls |-> 0, keys |-> <<>>], t, ext)
             p == GetPortfolio(s, pid)
             written == [p EXCEPT
                           !.balance_usd = Q2(acc.balance, PriceScale \div 100),
                           !.pnl_day_usd =
                               Q2(acc.pnl, (PriceScale * PcntScale) \div 100)]
         IN [status |-> acc.status,
             sess |-> IF acc.status = "ok"
                      THEN [s EXCEPT !.dirty_p = (pid :> written) @@ s.dirty_p]
                      ELSE s,
             cache |-> acc.cache, calls |-> acc.calls, keys |-> acc.keys,
             pos |-> pos]

\* ------------------------------------------------------------ user scoping
\* _p_or_404 passes
POk(s, pid, user) ==
    pid \in DOMAIN s.portfolios /\ s.portfolios[pid].user_id = user

\* _a_or_404 passes
AOk(s, pid, aid, user) ==
    /\ aid \in DOMAIN s.assets
    /\ s.assets[aid].portfolio_id = pid
    /\ POk(s, pid, user)

\* _t_or_404 passes
TOk(s, pid, tid, user) ==
    /\ tid \in DOMAIN s.txs
    /\ s.txs[tid].asset_id \in DOMAIN s.assets
    /\ s.assets[s.txs[tid].asset_id].portfolio_id = pid
    /\ POk(s, pid, user)

\* -------------------------------------------------------- request answers
NoResolved == [sym \in PriceSymbols |-> [kind |-> "unasked", data |-> NoData]]

\* What `fetch_ticker("spot", ..) or fetch_ticker("linear", ..)` yields for
\* each symbol when asked with cache c at time t: the prices a recomputation
\* made at that moment resolves.
Resolved(c, t, ext) ==
    [sym \in PriceSymbols |->
        LET tk == SpotOrLinear(c, t, ext, Pair(sym))
        IN [kind |-> tk.kind, data |-> tk.data]]

NoRow == [asset_id |-> NoId, type |-> "none", quantity |-> 0, price_usd |-> Absent]

\* What is kept of a finished request: the operation, its HTTP status, the
\* ids it named, the prices its recomputation resolved, for an update the
\* row as it was before, and for a reconciliation the database call that
\* failed (0: none) and the order of its steps.
NoRun == [db_fail |-> 0, log |-> <<>>]

AnswerOfRun(op, status, pid, tid, resolved, prev, run) ==
    [op |-> op, status |-> status, pid |-> pid, tid |-> tid,
     resolved |-> resolved, prev |-> prev, run |-> run]

AnswerWith(op, status, pid, tid, resolved, prev) ==
    AnswerOfRun(op, status, pid, tid, resolved, prev, NoRun)

Answer(op, status, pid, tid, resolved) ==
    AnswerWith(op, status, pid, tid, resolved, NoRow)

\* Session.commit(): flush, then the transaction's rows become the committed
\* rows.
Commit(s) ==
    LET f == Flush(s)
    IN /\ portfolios' = f.portfolios
       /\ assets' = f.assets
       /\ txs' = f.txs

\* a database without transactions: what session s has flushed stays
KeepFlushed(s) ==
    /\ portfolios' = s.portfolios
    /\ assets' = s.assets
    /\ txs' = s.txs

\* the session is committed although the handler raised
CommitOnRaise(s) == Commit(s)

\* get_db closes session s without a commit: nothing of it is kept.
Rollback(s) == UNCHANGED <<portfolios, assets, txs>>

StatusOfRaise(kind) == IF kind = "err502" THEN 502 ELSE 500

Init ==
    /\ portfolios = [p \in {"p1"} |->
                       [user_id |-> "u1", balance_usd |-> 0, pnl_day_usd |-> 0]]
    /\ assets = <<>>
    /\ txs = <<>>
    /\ cache = <<>>
    /\ now = 0
    /\ req = [pc |-> "idle", user |-> "u1", pid |-> "p1",
              r_unified |-> Raised, r_fund |-> Raised, r_ticks |-> Raised]
    /\ last = Answer("none", 0, "p1", NoId, NoResolved)

\* ------------------------------------------------------------------ inputs
AssetSymbolInputs == {<<"b", "t", "c">>, <<SP, "D", "o", "g", "e", SP>>, <<SP, SP>>}

\* who asks for which portfolio: the owner, a stranger, a portfolio that is
\* not there
Callers == {<<"u1", "p1">>, <<"u2", "p1">>, <<"u1", "p2">>}

\* TxCreate bodies: type, quantity, price_usd (Absent is None)
TxBodies ==
    { [type |-> "buy", quantity |-> 3, price_usd |-> Num(100)],
      [type |-> "transfer_out", quantity |-> 1, price_usd |-> Absent],
      [type |-> "buy", quantity |-> 0, price_usd |-> Num(100)],
      [type |-> "sell", quantity |-> 1, price_usd |-> Absent] }

\* every body passes
AnyBody(body) == TRUE

\* lines 601-604 / 632-635: the body passes the handler's validation
BodyValid(body) ==
    /\ body.quantity > 0
    /\ ~(body.type \in {"buy", "sell"} /\ body.price_usd.kind = "absent")

TxRow(aid, body) ==
    [asset_id |-> aid, type |-> body.type, quantity |-> body.quantity,
     price_usd |-> body.price_usd]

\* a request at a time: the handlers run while no reconciliation is waiting
\* between its upstream calls and its synthesis
Idle == req.pc = "idle"

\* ------------------------------------------------------------------ assets
\* POST /portfolios/{pid}/assets
add_asset(user, pid, raw) ==
    LET s == NewSession
        symbol == StripUpper(raw)
        dup == \E a \in DOMAIN assets :
                  assets[a].portfolio_id = pid /\ assets[a].symbol = symbol
        status == IF ~POk(s, pid, user) THEN 404
                  ELSE IF symbol = EmptyStr THEN 400
                  ELSE IF dup THEN 409
                  ELSE 201
    IN /\ Idle
       /\ assets' = IF status = 201
                    THEN (FreeId(DOMAIN assets, AssetIds) :>
                            [portfolio_id |-> pid, symbol |-> symbol,
                             display_name |-> symbol]) @@ assets
                    ELSE assets
       /\ last' = Answer("add_asset", status, pid, NoId, NoResolved)
       /\ UNCHANGED <<portfolios, txs, cache, now, req>>

\* ------------------------------------------------------------ transactions
\* How a handler that has staged its change in session s ends: recompute,
\* then commit; a raise in between leaves the session to get_db's close().
RecalcAndCommit(op, ok_status, s, pid, tid, ext) ==
    \E rc \in {Recalc(s, pid, cache, now, ext)} :
       /\ cache' = rc.cache
       /\ IF rc.status = "ok"
          THEN /\ Commit(rc.sess)
               /\ last' = AnswerWith(op, ok_status, pid, tid,
                             Resolved(cache, now, ext),
                             IF op = "update_transaction" THEN s.txs[tid]
                             ELSE NoRow)
          ELSE /\ Rollback(rc.sess)
               /\ last' = Answer(op, StatusOfRaise(rc.status), pid, tid,
                                 NoResolved)

Rejected(op, status, pid, tid) ==
    /\ last' = Answer(op, status, pid, tid, NoResolved)
    /\ UNCHANGED <<portfolios, assets, txs, cache>>

\* POST /portfolios/{pid}/transactions, with ext what the price source
\* answers during the request
AddTransactionNow(user, pid, aid, body, ext) ==
    LET s == NewSession
        staged == [s EXCEPT !.new_txs = Append(s.new_txs, TxRow(aid, body))]
        tid == FreeId(DOMAIN txs, TxIds)
    IN /\ Cardinality(DOMAIN txs) < MaxTx
       /\ IF ~POk(s, pid, user) \/ ~AOk(s, pid, aid, user)
          THEN Rejected("add_transaction", 404, pid, NoId)
          ELSE IF ~BodyValid(body)
          THEN Rejected("add_transaction", 400, pid, NoId)
          ELSE RecalcAndCommit("add_transaction", 201, staged, pid, tid, ext)
       /\ UNCHANGED <<now, req>>

AddTransaction(user, pid, aid, body, ext) ==
    Idle /\ AddTransactionNow(user, pid, aid, body, ext)

add_transaction(user, pid, aid, body) ==
    \E ext \in ExtMarkets : AddTransaction(user, pid, aid, body, ext)

\* PUT /portfolios/{pid}/transactions/{tid}
UpdateTransactionNow(user, pid, tid, aid, body, ext) ==
    LET s == NewSession
        staged == [s EXCEPT !.dirty_tx = (tid :> TxRow(aid, body)) @@ s.dirty_tx]
    IN /\ IF ~POk(s, pid, user) \/ ~TOk(s, pid, tid, user)
             \/ ~AOk(s, pid, aid, user)
          THEN Rejected("update_transaction", 404, pid, tid)
          ELSE IF ~BodyValid(body)
          THEN Rejected("update_transaction", 400, pid, tid)
          ELSE RecalcAndCommit("update_transaction", 200, staged, pid, tid, ext)
       /\ UNCHANGED <<now, req>>

UpdateTransaction(user, pid, tid, aid, body, ext) ==
    Idle /\ UpdateTransactionNow(user, pid, tid, aid, body, ext)

update_transaction(user, pid, tid, aid, body) ==
    \E ext \in ExtMarkets : UpdateTransaction(user, pid, tid, aid, body, ext)

\* DELETE /portfolios/{pid}/transactions/{tid}
DeleteTransactionNow(user, pid, tid, ext) ==
    LET s == NewSession
        staged == [s EXCEPT !.deleted_tx = s.deleted_tx \cup {tid}]
    IN /\ IF ~TOk(s, pid, tid, user)
          THEN Rejected("delete_transaction", 404, pid, tid)
          ELSE RecalcAndCommit("delete_transaction", 204, staged, pid, tid, ext)
       /\ UNCHANGED <<now, req>>

DeleteTransaction(user, pid, tid, ext) ==
    Idle /\ DeleteTransactionNow(user, pid, tid, ext)

delete_transaction(user, pid, tid) ==
    \E ext \in ExtMarkets : DeleteTransaction(user, pid, tid, ext)

\* ---------------------------------------------------------- reconciliation
\* Answers of the exchange-account source.  A wallet-balance answer lists
\* accounts, each with its coins; a funding answer lists balances; a tickers
\* answer lists symbols with their lastPrice.
Coin(name, bal) == [coin |-> name, walletBalance |-> bal]
Ticker(symbol, px) == [symbol |-> symbol, lastPrice |-> px]
Ok(list) == [kind |-> "answer", retCode |-> 0, list |-> list]

UnifiedAnswers ==
    { Raised, RetErr,
      Ok(<<>>),
      Ok(<< <<Coin(DOGE, Num(1000))>> >>),
      Ok(<< <<Coin(<<SP, "u", "s", "d", "c", SP>>, Num(500)),
              Coin(<<"d", "o", "g", "e">>, Num(1000))>> >>),
      Ok(<< <<Coin(DOGE, Num(1000))>>, <<Coin(BTC, Blank), Coin(BTC, Num(1))>> >>) }

FundAnswers ==
    { Raised, RetErr,
      Ok(<<>>),
      Ok(<<Coin(<<SP, "d", "o", "g", "e">>, Num(1000))>>) }

TicksWith(doge) ==
    Ok(<<Ticker(Pair(USDC), Num(PriceScale)),
         Ticker(<<"b", "t", "c", "u", "s", "d", "t", SP>>, Num(PriceScale)),
         Ticker(DOGE \o USDC, Num(PriceScale)),
         Ticker(Pair(DOGE), doge)>>)

TickAnswers ==
    { Raised, RetErr,
      TicksWith(Num(3)), TicksWith(Num(5)), TicksWith(Num(10)), TicksWith(Blank) }

\* What the three upstream calls of one run answer: every combination of
\* the successful answers, and each call failing in each way while the other
\* two succeed.
Failed(r) == r.kind = "raise" \/ r.retCode # 0

UpstreamRuns ==
    { run \in UnifiedAnswers \X FundAnswers \X TickAnswers :
        LET failed == {k \in 1..3 : Failed(run[k])}
            plain == <<Ok(<< <<Coin(DOGE, Num(1000))>> >>), Ok(<<>>),
                       TicksWith(Num(10))>>
        IN \/ failed = {}
           \/ \E k \in 1..3 : failed = {k} /\ \A j \in 1..3 \ {k} : run[j] = plain[j] }

\* which database call of the run raises: 0 for none, k for the k-th
\* flush()/commit()
DbFailures == {0, 1, 2}

\* no check of the answer at all
BybitOkAlways(r) == TRUE

\* _bybit_ok_or_502 passes
BybitOk(r) == r.retCode = 0

\* out[sym] = bal: the later report replaces the earlier one
DictPut(out, sym, bal) ==
    IF \E k \in 1..Len(out) : out[k].coin = sym
    THEN [k \in 1..Len(out) |->
            IF out[k].coin = sym THEN [out[k] EXCEPT !.bal = bal] ELSE out[k]]
    ELSE Append(out, [coin |-> sym, bal |-> bal])

\* out[sym] = out.get(sym, 0) + bal on an insertion-ordered dict, kept as a
\* sequence of [coin, bal] with distinct coins
DictAdd(out, sym, bal) ==
    IF \E k \in 1..Len(out) : out[k].coin = sym
    THEN [k \in 1..Len(out) |->
            IF out[k].coin = sym THEN [out[k] EXCEPT !.bal = @ + bal] ELSE out[k]]
    ELSE Append(out, [coin |-> sym, bal |-> bal])

\* the loop body shared by the two parsers, lines 84-87 and 95-98
RECURSIVE ParseCoins(_, _)
ParseCoins(coins, out) ==
    IF coins = <<>> THEN out
    ELSE LET c == Head(coins)
             sym == StripUpper(c.coin)
             bal == D0(c.walletBalance)
         IN ParseCoins(Tail(coins),
                       IF sym # EmptyStr /\ bal # 0 THEN DictAdd(out, sym, bal)
                       ELSE out)

\* _parse_unified_wallet_balance
RECURSIVE ParseUnified(_, _)
ParseUnified(accounts, out) ==
    IF accounts = <<>> THEN out
    ELSE ParseUnified(Tail(accounts), ParseCoins(Head(accounts), out))

\* _parse_fund_all_balance
ParseFund(balances) == ParseCoins(balances, <<>>)

\* lines 421-425: holdings[k] = holdings.get(k, 0) + v over both parses
RECURSIVE MergeHoldings(_, _)
MergeHoldings(parsed, holdings) ==
    IF parsed = <<>> THEN holdings
    ELSE MergeHoldings(Tail(parsed),
                       DictAdd(holdings, Head(parsed).coin, Head(parsed).bal))

Holdings(r_unified, r_fund) ==
    MergeHoldings(ParseFund(r_fund.list),
                  MergeHoldings(ParseUnified(r_unified.list, <<>>), <<>>))

\* lines 428-437: prices[BASE] = lastPrice of BASEUSDT, as a function on the
\* bases that got a price
RECURSIVE Prices(_, _)
Prices(tick_list, prices) ==
    IF tick_list = <<>> THEN prices
    ELSE LET it == Head(tick_list)
             sym == StripUpper(it.symbol)
             base == SubSeq(sym, 1, Len(sym) - 4)
             lastp == D0(it.lastPrice)
         IN Prices(Tail(tick_list),
                   IF EndsWith(sym, USDT) /\ base # EmptyStr /\ lastp > 0
                   THEN (base :> lastp) @@ prices
                   ELSE prices)

EXCLUDED == {USDT, USDC, DAI}

\* the skip without the denylist
SkippedNoDenylist(coin, bal, prices) ==
    \/ coin = EmptyStr
    \/ coin \notin DOMAIN prices
    \/ bal * prices[coin] < THRESH

\* the skip with the threshold itself counted as dust
SkippedAtThreshold(coin, bal, prices) ==
    \/ coin = EmptyStr
    \/ coin \in EXCLUDED
    \/ coin \notin DOMAIN prices
    \/ bal * prices[coin] <= THRESH

\* the skip without the test of the value against THRESH
SkippedNoDust(coin, bal, prices) ==
    \/ coin = EmptyStr
    \/ coin \in EXCLUDED
    \/ coin \notin DOMAIN prices

\* lines 454-464: the symbol is skipped
Skipped(coin, bal, prices) ==
    \/ coin = EmptyStr
    \/ coin \in EXCLUDED
    \/ coin \notin DOMAIN prices
    \/ bal * prices[coin] < THRESH

\* how many holdings the loop will not skip
ToSynthesize(holdings, prices) ==
    Cardinality({k \in 1..Len(holdings) :
                    ~Skipped(holdings[k].coin, holdings[k].bal, prices)})

\* no asset of the portfolio is looked up
AssetBySymbolNone(s, pid) == <<>>

\* lines 443-448
AssetBySymbol(s, pid) ==
    LET mine == {a \in DOMAIN s.assets : s.assets[a].portfolio_id = pid}
    IN [sym \in {StripUpper(s.assets[a].symbol) : a \in mine} |->
          CHOOSE a \in mine : StripUpper(s.assets[a].symbol) = sym]

\* db.add(TxORM(...)), lines 477-488, noted in the order of the steps
SynthesizedAndRecalculated(st, tx) ==
    [st EXCEPT !.sess.new_txs = Append(@, tx),
               !.log = @ \o <<"synth", "recalc">>]

Synthesized(st, tx) ==
    [st EXCEPT !.sess.new_txs = Append(@, tx), !.log = Append(@, "synth")]

\* The loop of lines 453-490 over the holdings still to do.  st carries the
\* session, asset_by_symbol, the order of the steps taken, the number of
\* database calls made and whether one of them raised.
RECURSIVE ImportLoop(_, _, _, _, _)
ImportLoop(todo, prices, pid, db_fail, st) ==
    IF todo = <<>> \/ st.status # "ok" THEN st
    ELSE LET coin == StripUpper(Head(todo).coin)
             bal == Head(todo).bal
             known == coin \in DOMAIN st.asset_by_symbol
             aid == IF known THEN st.asset_by_symbol[coin]
                    ELSE FreeId(DOMAIN st.sess.assets, AssetIds)
             added == [st.sess EXCEPT
                         !.assets = (aid :> [portfolio_id |-> pid,
                                             symbol |-> coin,
                                             display_name |-> coin]) @@ @]
             tx == [asset_id |-> aid, type |-> "transfer_in",
                    quantity |-> bal, price_usd |-> Absent]
             withAsset ==
                 IF known THEN st
                 ELSE [st EXCEPT !.sess = Flush(added),
                                 !.asset_by_symbol = (coin :> aid) @@ @,
                                 !.log = Append(@, "flush"),
                                 !.calls = @ + 1]
             withTx == Synthesized(withAsset, tx)
         IN IF Skipped(coin, bal, prices)
            THEN ImportLoop(Tail(todo), prices, pid, db_fail, st)
            ELSE IF ~known /\ st.calls + 1 = db_fail
            THEN [st EXCEPT !.status = "raise", !.calls = @ + 1,
                            !.log = Append(@, "flush")]
            ELSE ImportLoop(Tail(todo), prices, pid, db_fail, withTx)

\* POST /portfolios/{pid}/import/bybit, lines 398-419: the caller is checked
\* and the three upstream calls are made and checked.
import_bybit_keys_fetch(user, pid, r_unified, r_fund, r_ticks) ==
    LET s == NewSession
        asked == [req EXCEPT !.user = user, !.pid = pid]
        got == [asked EXCEPT !.r_unified = r_unified, !.r_fund = r_fund,
                             !.r_ticks = r_ticks]
    IN /\ Idle
       /\ UNCHANGED <<portfolios, assets, txs, cache, now>>
       /\ IF ~POk(s, pid, user)
          THEN /\ last' = Answer("import_bybit_keys", 404, pid, NoId, NoResolved)
               /\ req' = asked
          ELSE IF \/ "raise" \in {r_unified.kind, r_fund.kind, r_ticks.kind}
                  \/ ~BybitOk(r_unified) \/ ~BybitOk(r_fund) \/ ~BybitOk(r_ticks)
          THEN /\ last' = Answer("import_bybit_keys", 502, pid, NoId, NoResolved)
               /\ req' = got
          ELSE /\ Cardinality(DOMAIN txs)
                    + ToSynthesize(Holdings(r_unified, r_fund),
                                   Prices(r_ticks.list, <<>>)) <= MaxTx
               /\ req' = [got EXCEPT !.pc = "fetched"]
               /\ UNCHANGED last

\* POST /portfolios/{pid}/import/bybit, lines 421-497: the synthesis, the
\* recomputation and the commit, on the answers received.
import_bybit_keys(db_fail, ext) ==
    LET s == NewSession
        pid == req.pid
        answer(status, resolved, log) ==
            AnswerOfRun("import_bybit_keys", status, pid, NoId, resolved,
                        NoRow, [db_fail |-> db_fail, log |-> log])
        loop == ImportLoop(Holdings(req.r_unified, req.r_fund),
                  Prices(req.r_ticks.list, <<>>), pid, db_fail,
                  [sess |-> s, asset_by_symbol |-> AssetBySymbol(s, pid),
                   log |-> <<>>, calls |-> 0, status |-> "ok"])
    IN /\ req.pc = "fetched"
       /\ req' = [req EXCEPT !.pc = "idle"]
       /\ UNCHANGED now
       /\ \E st \in {loop} :
            IF st.status # "ok"
            THEN /\ last' = answer(500, NoResolved, st.log)
                 /\ Rollback(st.sess)
                 /\ UNCHANGED cache
            ELSE \E rc \in {Recalc(st.sess, pid, cache, now, ext)} :
                 /\ cache' = rc.cache
                 /\ IF rc.status # "ok"
                    THEN /\ last' = answer(StatusOfRaise(rc.status), NoResolved,
                                           Append(st.log, "recalc"))
                         /\ Rollback(rc.sess)
                    ELSE IF st.calls + 1 = db_fail
                    THEN /\ last' = answer(500, NoResolved,
                                           st.log \o <<"recalc", "commit">>)
                         /\ Rollback(rc.sess)
                    ELSE /\ last' = answer(200, Resolved(cache, now, ext),
                                           st.log \o <<"recalc", "commit">>)
                         /\ Commit(rc.sess)

Next ==
    \/ \E who \in Callers, raw \in AssetSymbolInputs :
          add_asset(who[1], who[2], raw)
    \/ \E who \in Callers, aid \in AssetIds, body \in TxBodies :
          add_transaction(who[1], who[2], aid, body)
    \/ \E who \in Callers, tid \in TxIds, aid \in AssetIds, body \in TxBodies :
          update_transaction(who[1], who[2], tid, aid, body)
    \/ \E who \in Callers, tid \in TxIds :
          delete_transaction(who[1], who[2], tid)

Spec == Init /\ [][Next]_vars

\* The reconciliation on its own, run after run on the same portfolio.
NextImport ==
    \/ \E who \in Callers, run \in UpstreamRuns :
          import_bybit_keys_fetch(who[1], who[2], run[1], run[2], run[3])
    \/ \E db_fail \in DbFailures, ext \in ExtMarkets :
          import_bybit_keys(db_fail, ext)

SpecImport == Init /\ [][NextImport]_vars

\* ============================================================== properties
\* The valuation the design asks for, over the committed ledger of pid at
\* the prices `resolved`: position = (buy + transfer_in) - (sell +
\* transfer_out) per asset; every asset with a nonzero position and a quote
\* adds quantity * last_price (and * price_change_24h_fraction); the two
\* totals are rounded half-up to cents.
RECURSIVE SumFn(_)
SumFn(f) ==
    IF DOMAIN f = {} THEN 0
    ELSE LET x == CHOOSE y \in DOMAIN f : TRUE
         IN f[x] + SumFn([y \in DOMAIN f \ {x} |-> f[y]])

NetPosition(aid) ==
    LET signed(t) == IF txs[t].type \in {"buy", "transfer_in"}
                     THEN txs[t].quantity ELSE 0 - txs[t].quantity
    IN SumFn([t \in {u \in DOMAIN txs : txs[u].asset_id = aid} |-> signed(t)])

HeldAssets(pid) ==
    {a \in DOMAIN assets : assets[a].portfolio_id = pid /\ NetPosition(a) # 0}

LedgerValuation(pid, resolved) ==
    LET held == HeldAssets(pid)
        priced == {a \in held : resolved[assets[a].symbol].kind = "ticker"}
        value(a) == NetPosition(a) * resolved[assets[a].symbol].data.lastPrice.v
        change(a) == value(a) * resolved[assets[a].symbol].data.price24hPcnt.v
    IN [ok |-> \A a \in held : resolved[assets[a].symbol].kind \in {"ticker", "none"},
        balance_usd |-> Q2(SumFn([a \in priced |-> value(a)]), PriceScale \div 100),
        pnl_day_usd |-> Q2(SumFn([a \in priced |-> change(a)]), (PriceScale * PcntScale) \div 100)]

StoredIsValuation(pid, resolved) ==
    LET v == LedgerValuation(pid, resolved)
    IN /\ v.ok
       /\ portfolios[pid].balance_usd = v.balance_usd
       /\ portfolios[pid].pnl_day_usd = v.pnl_day_usd

\* the stored totals differ from no valuation that can be computed
StoredAgrees(pid, resolved) ==
    LedgerValuation(pid, resolved).ok => StoredIsValuation(pid, resolved)

Succeeded(op, status) == last.op = op /\ last.status = status

\* C1: after add_transaction succeeds on portfolio P, P's stored balance_usd
\* and pnl_day_usd are the valuation of P's ledger including the added
\* transaction, at the prices that recomputation resolved.
C1_AddValuesNewLedger ==
    Succeeded("add_transaction", 201) => StoredAgrees(last.pid, last.resolved)

\* C2: after delete_transaction succeeds on portfolio P, P's stored
\* balance_usd and pnl_day_usd are the valuation of P's ledger without the
\* deleted transaction.
C2_DeleteValuesRemainingLedger ==
    Succeeded("delete_transaction", 204) => StoredAgrees(last.pid, last.resolved)

\* C4: after update_transaction succeeds on portfolio P, P's stored
\* balance_usd and pnl_day_usd are the valuation with the transaction's new
\* type, quantity and asset_id, also when the update moved it to another
\* asset of P.
C4_UpdateValuesNewFields ==
    Succeeded("update_transaction", 200) => StoredIsValuation(last.pid, last.resolved)

\* C4 witness: an update that moved a transaction to another asset and
\* changed its type and quantity, with the new holding priced.
C4_Witness ==
    /\ Succeeded("update_transaction", 200)
    /\ last.tid \in DOMAIN txs
    /\ txs[last.tid].asset_id # last.prev.asset_id
    /\ txs[last.tid].type # last.prev.type
    /\ txs[last.tid].quantity # last.prev.quantity
    /\ portfolios[last.pid].balance_usd # 0
    /\ portfolios[last.pid].pnl_day_usd # 0

\* ------------------------------------------------- reconciliation, as asked
\* What a run was told by the exchange account, read off the answers kept in
\* req: every coin entry of every unified account and of the funding list.
RECURSIVE Flatten(_)
Flatten(seqs) ==
    IF seqs = <<>> THEN <<>> ELSE Head(seqs) \o Flatten(Tail(seqs))

ReportedCoins(r) == Flatten(r.r_unified.list) \o r.r_fund.list

ReportedSymbols(r) ==
    LET coins == ReportedCoins(r)
    IN {StripUpper(coins[k].coin) : k \in DOMAIN coins}

\* the entire reported quantity of sym: unified plus funding, summed
ReportedQuantity(r, sym) ==
    LET coins == ReportedCoins(r)
    IN SumFn([k \in {j \in DOMAIN coins : StripUpper(coins[j].coin) = sym} |->
                D0(coins[k].walletBalance)])

\* the price of sym against USDT in the ticker list, 0 when it has none
QuotedPrice(r, sym) ==
    LET ticks == r.r_ticks.list
        hits == {k \in DOMAIN ticks :
                    /\ StripUpper(ticks[k].symbol) = sym \o USDT
                    /\ D0(ticks[k].lastPrice) > 0}
    IN IF hits = {} THEN 0
       ELSE D0(ticks[CHOOSE k \in hits : \A j \in hits : j <= k].lastPrice)

Denylist == {USDT, USDC, DAI}

Qualifies(r, sym) ==
    /\ sym # EmptyStr
    /\ sym \notin Denylist
    /\ QuotedPrice(r, sym) > 0
    /\ ReportedQuantity(r, sym) * QuotedPrice(r, sym) >= THRESH

UpstreamFailed(r) == Failed(r.r_unified) \/ Failed(r.r_fund) \/ Failed(r.r_ticks)

Owner(r) == r.pid \in DOMAIN portfolios /\ portfolios[r.pid].user_id = r.user

AssetsOf(table, pid, sym) ==
    {a \in DOMAIN table :
        table[a].portfolio_id = pid /\ StripUpper(table[a].symbol) = sym}

Count(log, x) == Cardinality({k \in DOMAIN log : log[k] = x})

\* the step in which a run that got its answers ends
ImportApplied == req.pc = "fetched" /\ req'.pc = "idle"

NewTxs == DOMAIN txs' \ DOMAIN txs

NewTxsOf(sym) ==
    {t \in NewTxs : txs'[t].asset_id \in AssetsOf(assets', req.pid, sym)}

\* C3: after a successful reconciliation of portfolio P, P's stored
\* balance_usd and pnl_day_usd are the valuation of a ledger that holds every
\* transfer_in the run synthesized, the last one included.
C3_ImportValuesSynthesized ==
    Succeeded("import_bybit_keys", 200) => StoredAgrees(last.pid, last.resolved)

\* C5: when one of the three upstream calls of a run raises or answers with
\* a retCode other than 0, the run ends with 502 and the portfolio's assets,
\* transactions and stored totals are what they were.
C5_UpstreamFailureAborts ==
    [][(Idle /\ Owner(req') /\ UpstreamFailed(req'))
         => /\ req'.pc = "idle"
            /\ last'.op = "import_bybit_keys"
            /\ last'.status = 502
            /\ last'.pid = req'.pid
            /\ UNCHANGED <<portfolios, assets, txs>>]_vars

\* C5 witness: the ticker list answered with a retCode after both balance
\* calls had succeeded, on a portfolio that already holds transactions.
C5_Witness ==
    /\ Idle /\ Owner(req)
    /\ Succeeded("import_bybit_keys", 502)
    /\ ~UpstreamFailed([req EXCEPT !.r_ticks = Ok(<<>>)])
    /\ req.r_ticks.kind = "answer" /\ req.r_ticks.retCode # 0
    /\ DOMAIN txs # {}

\* C6: a run that fails after it began synthesizing (a flush, the commit or
\* the recomputation raises) leaves the committed assets, transactions and
\* totals untouched; a run commits all of its transactions or none.
C6_FailedRunLeavesNothing ==
    [][ImportApplied
         => /\ last'.status # 200 => UNCHANGED <<portfolios, assets, txs>>
            /\ Cardinality(NewTxs) \in
                 {0, Cardinality({sym \in ReportedSymbols(req) : Qualifies(req, sym)})}]_vars

\* C6 witness: the second flush of a run raised after an asset had been
\* flushed and a transaction synthesized; nothing of the run is committed.
C6_Witness ==
    /\ Idle
    /\ Succeeded("import_bybit_keys", 500)
    /\ last.run.log = <<"flush", "synth", "flush">>
    /\ assets = <<>> /\ txs = <<>>

\* C7: a successful run adds exactly one transfer_in per qualifying symbol
\* (not denylisted, priced, worth the threshold or more), of the entire
\* reported quantity; it creates the symbol's asset, named after the symbol,
\* when the portfolio has none and reuses the existing one otherwise; it adds
\* nothing for any other symbol and keeps every earlier row.
C7_OneTransferPerQualifyingSymbol ==
    [][(ImportApplied /\ last'.status = 200)
         => /\ \A t \in DOMAIN txs : t \in DOMAIN txs' /\ txs'[t] = txs[t]
            /\ \A a \in DOMAIN assets : a \in DOMAIN assets' /\ assets'[a] = assets[a]
            /\ \A t \in NewTxs :
                 /\ txs'[t].asset_id \in DOMAIN assets'
                 /\ assets'[txs'[t].asset_id].portfolio_id = req.pid
            /\ \A sym \in ReportedSymbols(req)
                            \cup {StripUpper(assets'[a].symbol) : a \in DOMAIN assets'} :
                 LET before == AssetsOf(assets, req.pid, sym)
                     after == AssetsOf(assets', req.pid, sym)
                     made == NewTxsOf(sym)
                 IN IF Qualifies(req, sym)
                    THEN /\ Cardinality(made) = 1
                         /\ \A t \in made :
                              /\ txs'[t].type = "transfer_in"
                              /\ txs'[t].quantity = ReportedQuantity(req, sym)
                         /\ IF before # {} THEN after = before
                            ELSE /\ Cardinality(after) = 1
                                 /\ \A a \in after :
                                      /\ assets'[a].symbol = sym
                                      /\ assets'[a].display_name = sym
                    ELSE made = {} /\ after = before]_vars

\* C7 witness: a run reused the asset an earlier run had created and added
\* its transfer_in of the unified and funding quantities summed, while the
\* account also reported a symbol that does not qualify.
C7_Witness ==
    /\ Idle
    /\ Succeeded("import_bybit_keys", 200)
    /\ last.run.log = <<"synth", "recalc", "commit">>
    /\ Qualifies(req, DOGE)
    /\ ReportedQuantity(req, DOGE) = 2000
    /\ \E sym \in ReportedSymbols(req) : ~Qualifies(req, sym)
    /\ \E t1, t2 \in DOMAIN txs :
         /\ txs[t1].asset_id = txs[t2].asset_id
         /\ txs[t1].quantity = 1000
         /\ txs[t2].quantity = 2000

\* C8: no asset and no transaction of a reconciled portfolio is of a
\* denylisted symbol (USDT, USDC, DAI), however the coin name was spelled.
C8_DenylistNeverImported ==
    /\ \A a \in DOMAIN assets : StripUpper(assets[a].symbol) \notin Denylist
    /\ \A t \in DOMAIN txs :
         /\ txs[t].asset_id \in DOMAIN assets
         /\ StripUpper(assets[txs[t].asset_id].symbol) \notin Denylist

\* C8 witness: a run succeeded and synthesized a transaction while the
\* account reported a priced USDC balance above the threshold, spelled in
\* lower case with surrounding blanks.
C8_Witness ==
    /\ Idle
    /\ Succeeded("import_bybit_keys", 200)
    /\ Count(last.run.log, "synth") > 0
    /\ \E k \in DOMAIN ReportedCoins(req) :
         /\ ReportedCoins(req)[k].coin # USDC
         /\ StripUpper(ReportedCoins(req)[k].coin) = USDC
    /\ ReportedQuantity(req, USDC) * QuotedPrice(req, USDC) >= THRESH

\* C9: in a successful run a reported symbol off the denylist is imported
\* exactly when it has a price and quantity * price is 0.5 USD or more; a
\* symbol without a price or below 0.5 gets no asset and no transaction, and
\* no run fails for a reason other than a database call or the recomputation.
C9_DustAndUnpricedSkipped ==
    [][ImportApplied
         => /\ last'.status = 200 =>
                 \A sym \in ReportedSymbols(req) \ (Denylist \cup {EmptyStr}) :
                    LET price == QuotedPrice(req, sym)
                        usd_val == ReportedQuantity(req, sym) * price
                    IN IF price = 0 \/ usd_val < THRESH
                       THEN /\ NewTxsOf(sym) = {}
                            /\ AssetsOf(assets', req.pid, sym)
                                 = AssetsOf(assets, req.pid, sym)
                       ELSE NewTxsOf(sym) # {}
            /\ last'.status # 200 =>
                 \/ last'.run.db_fail # 0
                 \/ Count(last'.run.log, "recalc") > 0]_vars

\* C9 witness: DOGE 1000 at 0.0005, worth exactly the threshold, was
\* imported as one transfer_in of 1000.
C9_Witness ==
    /\ Idle
    /\ Succeeded("import_bybit_keys", 200)
    /\ ReportedQuantity(req, DOGE) = 1000
    /\ ReportedQuantity(req, DOGE) * QuotedPrice(req, DOGE) = THRESH
    /\ last.run.log = <<"flush", "synth", "recalc", "commit">>
    /\ \E t \in DOMAIN txs : txs[t].quantity = 1000 /\ txs[t].type = "transfer_in"

\* C10: a run recomputes the valuation at most once and never before one of
\* its syntheses; a run that succeeds has recomputed exactly once, also when
\* it synthesized nothing; a run that never recomputed stopped at a failed
\* flush or before its synthesis.
C10_OneRecalcAfterSyntheses ==
    last.op = "import_bybit_keys" =>
        LET log == last.run.log
        IN /\ Count(log, "recalc") <= 1
           /\ \A i, j \in DOMAIN log :
                log[i] = "synth" /\ log[j] = "recalc" => i < j
           /\ last.status = 200 => Count(log, "recalc") = 1
           /\ Count(log, "recalc") = 0 =>
                \/ last.status \in {404, 502} /\ log = <<>>
                \/ last.status = 500 /\ log # <<>> /\ log[Len(log)] = "flush"

\* C10 witness: a run synthesized two transactions and then recomputed once.
C10_Witness ==
    /\ Idle
    /\ Succeeded("import_bybit_keys", 200)
    /\ last.run.log = <<"flush", "synth", "flush", "synth", "recalc", "commit">>

\* ------------------------------------------- reconciliation, run after run
\* The same account and the same prices at every run of the owner: the first
\* run draws the answers, every later run gets them again.
NextSnapshot ==
    \/ \E run \in UpstreamRuns :
          /\ last.op = "none" \/ run = <<req.r_unified, req.r_fund, req.r_ticks>>
          /\ import_bybit_keys_fetch("u1", "p1", run[1], run[2], run[3])
    \/ \E db_fail \in DbFailures, ext \in ExtMarkets :
          import_bybit_keys(db_fail, ext)

SpecSnapshot == Init /\ [][NextSnapshot]_vars

TxsOfAsset(table, a) == {t \in DOMAIN table : table[t].asset_id = a}

\* buy and transfer_in add, sell and transfer_out subtract
NetIn(table, a) ==
    SumFn([t \in TxsOfAsset(table, a) |->
             IF table[t].type \in {"buy", "transfer_in"}
             THEN table[t].quantity ELSE 0 - table[t].quantity])

\* C11: a run that succeeds right after a successful run on the same account
\* and prices adds a further transfer_in per qualifying symbol on the asset
\* the first run created; the asset's position is the reported quantity
\* times the number of its transactions, twice it after the second run.
C11_SecondRunDoubles ==
    [][(ImportApplied /\ last'.status = 200 /\ Succeeded("import_bybit_keys", 200))
         => \A sym \in ReportedSymbols(req) :
              Qualifies(req, sym) =>
                 LET before == AssetsOf(assets, req.pid, sym)
                 IN /\ Cardinality(before) = 1
                    /\ AssetsOf(assets', req.pid, sym) = before
                    /\ \A a \in before :
                         /\ \A t \in TxsOfAsset(txs', a) : txs'[t].type = "transfer_in"
                         /\ Cardinality(TxsOfAsset(txs', a))
                              = Cardinality(TxsOfAsset(txs, a)) + 1
                         /\ NetIn(txs', a)
                              = Cardinality(TxsOfAsset(txs', a)) * ReportedQuantity(req, sym)
                         /\ Cardinality(TxsOfAsset(txs, a)) = 1
                              => NetIn(txs', a) = 2 * ReportedQuantity(req, sym)]_vars

\* C11 witness: the second of two runs in succession has ended; the one
\* asset holds two transfer_in of the reported quantity each.
C11_Witness ==
    /\ Idle
    /\ Succeeded("import_bybit_keys", 200)
    /\ last.run.log = <<"synth", "recalc", "commit">>
    /\ Cardinality(DOMAIN assets) = 1
    /\ \E sym \in ReportedSymbols(req) :
         /\ Qualifies(req, sym)
         /\ \A a \in DOMAIN assets :
              /\ assets[a].symbol = sym
              /\ Cardinality(TxsOfAsset(txs, a)) = 2
              /\ NetIn(txs, a) = 2 * ReportedQuantity(req, sym)
              /\ ReportedQuantity(req, sym) > 0


\* ================================================================ the ticker
\* GET /market/bybit/ticker/{base}

\* the clock is followed for a few seconds
MaxNow == 3

\* line 87, the longest base symbol accepted
MaxBase == 16

\* time.time() moves on between two requests
Tick ==
    /\ now < MaxNow
    /\ now' = now + 1
    /\ UNCHANGED <<portfolios, assets, txs, cache, req, last>>

LongBase(n) == [i \in 1..n |-> "A"]

\* base as sent in the path: padded lower case, plain, blank, of the longest
\* accepted length, one character longer
BaseInputs ==
    { <<SP, "b", "t", "c", SP>>, <<"d", "o", "g", "e">>, <<SP, SP>>,
      LongBase(MaxBase), LongBase(MaxBase + 1) }

QuoteInputs == { <<SP, "u", "s", "d", "t">> }

\* what the price source answers at the moment of a request
TickerMarkets ==
    { Market("q", "q", "e", "q"), Market("p", "q", "e", "q"),
      Market("x", "q", "e", "x"), Market("e", "e", "e", "e"),
      Market("q", "q", "r", "q") }

\* every base passes
BaseValidAlways(base) == TRUE

\* line 87, negated: `not base or len(base) > 16`
BaseValid(base) == base # EmptyStr /\ Len(base) <= MaxBase

\* the linear market is tried whatever was asked
MayFallBackAlways(fallback_linear, category) == TRUE

\* line 97: `fallback_linear and category != "linear"`
MayFallBack(fallback_linear, category) == fallback_linear /\ category # "linear"

NoEntry == [present |-> FALSE, ts |-> 0, data |-> NoData]

\* the cache entry a lookup of key finds, of whatever age
EntryOf(c, key) ==
    IF key \in DOMAIN c
    THEN [present |-> TRUE, ts |-> c[key].ts, data |-> c[key].data]
    ELSE NoEntry

\* what is kept of one fetch_ticker call tk: the key, the entry the cache
\* held, the external calls made, what the source would answer, what
\* fetch_ticker yielded
Lookup(c, ext, tk) ==
    LET key == tk.keys[1]
    IN [key |-> key, had |-> EntryOf(c, key), calls |-> tk.calls,
        got |-> IF key \in DOMAIN ext THEN ext[key] ELSE NoList,
        kind |-> tk.kind, data |-> tk.data]

TickerAnswer(status, asked, lookups, data, detail) ==
    [op |-> "bybit_ticker", status |-> status,
     run |-> [asked |-> asked, lookups |-> lookups, data |-> data,
              detail |-> detail]]

\* bybit_ticker, lines 77-102.  A raise of the client is not caught: 500.
bybit_ticker(base_in, category, quote_in, fallback_linear, ext) ==
    LET base == StripUpper(base_in)
        quote == StripUpper(quote_in)
        symbol == base \o quote
        asked == [base |-> base_in, quote |-> quote_in, category |-> category,
                  fallback_linear |-> fallback_linear]
        ends(tk, lookups) ==
            /\ cache' = tk.cache
            /\ last' = CASE tk.kind = "ticker" ->
                              TickerAnswer(200, asked, lookups, tk.data, <<>>)
                         [] tk.kind = "err502" ->
                              TickerAnswer(502, asked, lookups, NoData, tk.detail)
                         [] tk.kind = "raise" ->
                              TickerAnswer(500, asked, lookups, NoData, <<>>)
                         [] OTHER ->
                              TickerAnswer(404, asked, lookups, NoData,
                                           <<"Ticker not found for ", symbol>>)
    IN /\ Idle
       /\ UNCHANGED <<portfolios, assets, txs, now, req>>
       /\ IF ~BaseValid(base)
          THEN /\ last' = TickerAnswer(400, asked, <<>>, NoData,
                                       <<"Invalid base symbol">>)
               /\ UNCHANGED cache
          ELSE \E t1 \in {FetchTicker(cache, now, ext, category, symbol)} :
                 IF t1.kind = "none" /\ MayFallBack(fallback_linear, category)
                 THEN \E t2 \in {FetchTicker(t1.cache, now, ext, "linear", symbol)} :
                        ends(t2, <<Lookup(cache, ext, t1), Lookup(t1.cache, ext, t2)>>)
                 ELSE ends(t1, <<Lookup(cache, ext, t1)>>)

NextMarket ==
    \/ Tick
    \/ \E base \in BaseInputs, category \in Categories, quote \in QuoteInputs,
          fallback_linear \in BOOLEAN, ext \in TickerMarkets :
          bybit_ticker(base, category, quote, fallback_linear, ext)

SpecMarket == Init /\ [][NextMarket]_vars


\* ------------------------------------------------- the ticker's properties
\* a step that answers a ticker request
TickerStep == last'.op = "bybit_ticker" /\ now' = now

\* the source answers with a listing
Quoted(got) == got.kind = "answer" /\ got.retCode = 0 /\ got.list # <<>>

\* the quote of the listing, an empty or missing field read as "0"
QuoteOf(got) ==
    [lastPrice |-> IF got.list[1].lastPrice.kind \in {"absent", "blank"}
                   THEN Num(0) ELSE got.list[1].lastPrice,
     price24hPcnt |-> IF got.list[1].price24hPcnt.kind \in {"absent", "blank"}
                      THEN Num(0) ELSE got.list[1].price24hPcnt]

\* the cache holds an entry for key younger than the TTL
WithinTTL(key) == key \in DOMAIN cache /\ now - cache[key].ts < TTL

\* C12: a lookup calls the price source exactly when the cache holds no entry
\* for its key younger than the TTL.  Within the TTL the cached quote is
\* returned with no call and the entry stays; at or after the TTL (or with
\* no entry) exactly one call is made, a quote it brings replaces the entry
\* with the time of the lookup and is what is returned, and without a new
\* quote nothing is returned as a quote: the expired one is never served.
C12_CallIffNotFresh ==
    [][TickerStep =>
        \A i \in DOMAIN last'.run.lookups :
           LET l == last'.run.lookups[i]
           IN /\ WithinTTL(l.key) <=> l.calls = 0
              /\ ~WithinTTL(l.key) <=> l.calls = 1
              /\ WithinTTL(l.key) =>
                    /\ l.kind = "ticker"
                    /\ l.data = cache[l.key].data
                    /\ cache'[l.key] = cache[l.key]
              /\ (~WithinTTL(l.key) /\ Quoted(l.got)) =>
                    /\ l.kind = "ticker"
                    /\ l.data = QuoteOf(l.got)
                    /\ cache'[l.key] = [ts |-> now, data |-> QuoteOf(l.got)]
              /\ (~WithinTTL(l.key) /\ ~Quoted(l.got)) => l.kind # "ticker"]_vars

\* a quote cached exactly TTL seconds ago was looked up: one call was made,
\* the moved price was returned and stored with the new time
C12_Witness ==
    /\ Succeeded("bybit_ticker", 200)
    /\ \E i \in DOMAIN last.run.lookups :
          LET l == last.run.lookups[i]
          IN /\ l.had.present
             /\ now - l.had.ts = TTL
             /\ l.calls = 1
             /\ l.data # l.had.data
             /\ last.run.data = l.data
             /\ cache[l.key] = [ts |-> now, data |-> l.data]


\* C13: a lookup the price source answers with retCode # 0 fails the request
\* with 502 and the provider's message in the detail; the lookup yields
\* neither None nor a quote, and the cache is what it was: no entry is
\* written or overwritten.
C13_RefusalIs502 ==
    [][TickerStep =>
        \A i \in DOMAIN last'.run.lookups :
           LET l == last'.run.lookups[i]
           IN (l.calls = 1 /\ l.got.kind = "answer" /\ l.got.retCode # 0) =>
                 /\ l.kind = "err502"
                 /\ l.data = NoData
                 /\ last'.status = 502
                 /\ last'.run.data = NoData
                 /\ \E k \in DOMAIN last'.run.detail :
                       last'.run.detail[k] = l.got.retMsg
                 /\ cache' = cache]_vars

\* an expired entry was looked up, the source refused, the request ended in
\* 502 and the entry is still the old one
C13_Witness ==
    /\ Succeeded("bybit_ticker", 502)
    /\ \E i \in DOMAIN last.run.lookups :
          LET l == last.run.lookups[i]
          IN /\ l.got.retCode # 0
             /\ l.calls = 1
             /\ l.had.present
             /\ l.key \in DOMAIN cache
             /\ cache[l.key] = [ts |-> l.had.ts, data |-> l.had.data]
             /\ last.run.detail = <<"Bybit error: ", l.got.retMsg>>


\* the pair a request asks for: base and quote trimmed and upper-cased
AskedPair(asked) == StripUpper(asked.base) \o StripUpper(asked.quote)

\* C14: a request with an acceptable base looks up (category, pair) first and
\* answers 200 with that quote when there is one, without a second lookup,
\* so the linear market is not queried.  When there is none and fallback is
\* allowed and the category is not "linear", it looks up ("linear", pair)
\* and answers 200 with that quote, or 404 when there is none either.  With
\* fallback disabled or category "linear" it makes no second lookup and
\* answers 404.
C14_FallbackToLinear ==
    [][(TickerStep /\ last'.status # 400) =>
        LET asked == last'.run.asked
            L == last'.run.lookups
            pair == AskedPair(asked)
        IN /\ Len(L) \in {1, 2}
           /\ L[1].key = <<asked.category, pair>>
           /\ (~WithinTTL(L[1].key) /\ Quoted(L[1].got)) => L[1].kind = "ticker"
           /\ (~WithinTTL(L[1].key) /\ L[1].got = NoList) => L[1].kind = "none"
           /\ L[1].kind = "ticker" =>
                 /\ Len(L) = 1
                 /\ last'.status = 200
                 /\ last'.run.data = L[1].data
           /\ (L[1].kind = "none" /\ asked.fallback_linear
                 /\ asked.category # "linear") =>
                 /\ Len(L) = 2
                 /\ L[2].key = <<"linear", pair>>
                 /\ L[2].kind = "ticker" =>
                       last'.status = 200 /\ last'.run.data = L[2].data
                 /\ L[2].kind = "none" => last'.status = 404
           /\ (L[1].kind = "none"
                 /\ (~asked.fallback_linear \/ asked.category = "linear")) =>
                 /\ Len(L) = 1
                 /\ last'.status = 404]_vars

\* a spot request found nothing on spot and was answered with the linear
\* quote
C14_Witness ==
    /\ Succeeded("bybit_ticker", 200)
    /\ last.run.asked.category = "spot"
    /\ last.run.asked.fallback_linear
    /\ Len(last.run.lookups) = 2
    /\ last.run.lookups[1].kind = "none"
    /\ last.run.lookups[2].key = <<"linear", AskedPair(last.run.asked)>>
    /\ last.run.lookups[2].kind = "ticker"
    /\ last.run.data = last.run.lookups[2].data


\* C15: a base that is empty once trimmed, or longer than 16 characters, is
\* answered 400 with no lookup made (neither the cache nor the price source
\* is consulted) and the cache as it was; any other base is looked up under
\* its full length, so nothing is cut to fit.
C15_InvalidBaseRejected ==
    [][TickerStep =>
        LET asked == last'.run.asked
            trimmed == Strip(asked.base)
        IN IF trimmed = EmptyStr \/ Len(trimmed) > 16
           THEN /\ last'.status = 400
                /\ last'.run.lookups = <<>>
                /\ last'.run.data = NoData
                /\ cache' = cache
           ELSE /\ last'.status # 400
                /\ \A i \in DOMAIN last'.run.lookups :
                      /\ last'.run.lookups[i].key[2] = AskedPair(asked)
                      /\ Len(last'.run.lookups[i].key[2]) =
                            Len(trimmed) + Len(Strip(asked.quote))]_vars

\* a base of 17 characters was rejected while the cache held quotes
C15_Witness ==
    /\ Succeeded("bybit_ticker", 400)
    /\ Len(Strip(last.run.asked.base)) = MaxBase + 1
    /\ last.run.lookups = <<>>
    /\ cache # <<>>


\* ========================================================= the recomputation
\* _recalc_portfolio_market_metrics on its own, over ledgers of every shape

\* the portfolio's two assets, in either order of their ids
AssetTables ==
    { [a \in 1..2 |-> [portfolio_id |-> "p1", symbol |-> order[a],
                       display_name |-> order[a]]] :
        order \in {<<BTC, DOGE>>, <<DOGE, BTC>>} }

RecalcRows ==
    { TxRow(a, body) :
        a \in 1..2,
        body \in { [type |-> "buy", quantity |-> 3, price_usd |-> Num(100)],
                   [type |-> "sell", quantity |-> 3, price_usd |-> Num(100)],
                   [type |-> "transfer_in", quantity |-> 5, price_usd |-> Absent],
                   [type |-> "transfer_out", quantity |-> 1, price_usd |-> Absent] } }

\* the ledgers of up to MaxTx rows, in every order of their ids
Ledgers == UNION { [1..n -> RecalcRows] : n \in 0..MaxTx }

\* between recomputations the clock is followed for the length of a TTL
MaxRecalcNow == 2

TickRecalc == now < MaxRecalcNow /\ Tick

\* DOGE alone; everything listed; both on linear only
RecalcMarkets ==
    { Market("e", "e", "q", "q"), Market("q", "q", "q", "q"),
      Market("e", "q", "e", "q") }

InitRecalc ==
    /\ portfolios = [p \in {"p1"} |->
                       [user_id |-> "u1", balance_usd |-> 0, pnl_day_usd |-> 0]]
    /\ assets \in AssetTables
    /\ txs \in Ledgers
    /\ cache = <<>>
    /\ now = 0
    /\ req = [pc |-> "idle", user |-> "u1", pid |-> "p1",
              r_unified |-> Raised, r_fund |-> Raised, r_ticks |-> Raised]
    /\ last = Answer("none", 0, "p1", NoId, NoResolved)

\* What is kept of a recomputation: its status, what the price lookups
\* would resolve at that moment, the positions it folded, the cache keys it
\* looked up, the external calls it made and the cache it started from.
RecalcAnswer(status, pid, resolved, rc, before) ==
    [op |-> "recalc", status |-> status, pid |-> pid, resolved |-> resolved,
     run |-> [pos |-> rc.pos, keys |-> rc.keys, calls |-> rc.calls,
              before |-> before]]

\* _recalc_portfolio_market_metrics(db, pid) in a session of its own, then
\* db.commit(); a raise leaves the session to get_db's close().
recalc_portfolio_market_metrics(pid, ext) ==
    \E rc \in {Recalc(NewSession, pid, cache, now, ext)} :
       /\ Idle
       /\ cache' = rc.cache
       /\ UNCHANGED <<now, req>>
       /\ IF rc.status = "ok"
          THEN /\ Commit(rc.sess)
               /\ last' = RecalcAnswer(200, pid, Resolved(cache, now, ext), rc,
                                       cache)
          ELSE /\ Rollback(rc.sess)
               /\ last' = RecalcAnswer(StatusOfRaise(rc.status), pid,
                                       Resolved(cache, now, ext), rc, cache)

NextRecalc ==
    \/ TickRecalc
    \/ \E ext \in RecalcMarkets : recalc_portfolio_market_metrics("p1", ext)

SpecRecalc == InitRecalc /\ [][NextRecalc]_vars


\* ---------------------------------------------- the recomputation's properties
\* the last request was a recomputation
Recalculated == last.op = "recalc"

\* held assets of pid for which neither category yielded a quote
Unpriced(pid) ==
    {a \in HeldAssets(pid) : last.resolved[assets[a].symbol].kind = "none"}

\* held assets of pid for which a quote was found
Priced(pid) ==
    {a \in HeldAssets(pid) : last.resolved[assets[a].symbol].kind = "ticker"}

\* quantity * last_price of asset a, in units of 1/PriceScale
ValueOf(a) == NetPosition(a) * last.resolved[assets[a].symbol].data.lastPrice.v

\* quantity * last_price * price_change_24h_fraction of asset a
ChangeOf(a) == ValueOf(a) * last.resolved[assets[a].symbol].data.price24hPcnt.v

\* C16: a recomputation over a ledger with a held asset that has no quote in
\* either category, and no lookup failing, succeeds, and the stored totals
\* are the valuation of the priced assets alone, wherever the unpriced asset
\* stands in the order of the loop.
C16_UnpricedAssetSkipped ==
    (/\ Recalculated
     /\ Unpriced("p1") # {}
     /\ HeldAssets("p1") = Unpriced("p1") \cup Priced("p1"))
    => /\ last.status = 200
       /\ portfolios["p1"].balance_usd =
             Q2(SumFn([a \in Priced("p1") |-> ValueOf(a)]), PriceScale \div 100)
       /\ portfolios["p1"].pnl_day_usd =
             Q2(SumFn([a \in Priced("p1") |-> ChangeOf(a)]),
                (PriceScale * PcntScale) \div 100)

\* the unpriced asset comes first in the loop, the priced one after it is
\* valued
C16_Witness ==
    /\ Succeeded("recalc", 200)
    /\ 1 \in Unpriced("p1")
    /\ 2 \in Priced("p1")
    /\ portfolios["p1"].balance_usd # 0


\* assets of pid whose net position is exactly 0
FlatAssets(pid) ==
    {a \in DOMAIN assets : assets[a].portfolio_id = pid /\ NetPosition(a) = 0}

\* the cache keys of asset a's pair, one per category
KeysOf(a) == {<<cat, Pair(assets[a].symbol)>> : cat \in Categories}

\* C17: in a recomputation, for every asset whose net position is exactly 0
\* no key of its pair is looked up in either category (no cache read, no
\* external call: the cache entries of its pair are what they were), and
\* the totals of a successful run are those of the assets with a nonzero
\* position, so it contributes 0 to both.
C17_FlatAssetNotLookedUp ==
    Recalculated =>
       /\ \A a \in FlatAssets("p1") :
             /\ \A k \in DOMAIN last.run.keys : last.run.keys[k] \notin KeysOf(a)
             /\ \A key \in KeysOf(a) :
                   /\ key \in DOMAIN cache <=> key \in DOMAIN last.run.before
                   /\ key \in DOMAIN cache => cache[key] = last.run.before[key]
       /\ FlatAssets("p1") = DOMAIN assets => last.run.calls = 0
       /\ last.status = 200 =>
             /\ portfolios["p1"].balance_usd =
                   Q2(SumFn([a \in Priced("p1") \ FlatAssets("p1") |-> ValueOf(a)]),
                      PriceScale \div 100)
             /\ portfolios["p1"].pnl_day_usd =
                   Q2(SumFn([a \in Priced("p1") \ FlatAssets("p1") |-> ChangeOf(a)]),
                      (PriceScale * PcntScale) \div 100)

\* an asset bought and sold in full, listed by the price source, was passed
\* over: nothing was looked up and nothing stored for its pair
C17_Witness ==
    /\ Succeeded("recalc", 200)
    /\ \E a \in FlatAssets("p1") :
          /\ Cardinality({t \in DOMAIN txs : txs[t].asset_id = a}) = 2
          /\ last.resolved[assets[a].symbol].kind = "ticker"
          /\ KeysOf(a) \cap DOMAIN cache = {}
    /\ last.run.keys = <<>>
    /\ last.run.calls = 0
    /\ portfolios["p1"].balance_usd = 0


\* cents is the exact total n (in units of which d make a cent) rounded to
\* the nearest cent, a tie going away from zero
HalfUp2(n, d, cents) ==
    IF n >= 0
    THEN 2 * cents * d - d <= 2 * n /\ 2 * n < 2 * cents * d + d
    ELSE 2 * cents * d - d < 2 * n /\ 2 * n <= 2 * cents * d + d

\* C18: after a successful recomputation balance_usd is the exact sum of
\* quantity * last_price over the priced assets, rounded once, half-up, to
\* cents, and pnl_day_usd is the exact sum of quantity * last_price *
\* price_change_24h_fraction rounded the same way; nothing is rounded per
\* asset.
C18_OnlyTotalsRounded ==
    (Recalculated /\ last.status = 200) =>
       /\ HalfUp2(SumFn([a \in Priced("p1") |-> ValueOf(a)]),
                  PriceScale \div 100, portfolios["p1"].balance_usd)
       /\ HalfUp2(SumFn([a \in Priced("p1") |-> ChangeOf(a)]),
                  (PriceScale * PcntScale) \div 100,
                  portfolios["p1"].pnl_day_usd)

\* 3 coins at 10.005: the exact total 30.015 is stored as 30.02
C18_Witness ==
    /\ Succeeded("recalc", 200)
    /\ \E a \in Priced("p1") :
          /\ Priced("p1") = {a}
          /\ NetPosition(a) = 3
          /\ last.resolved[assets[a].symbol].data.lastPrice.v * 1000 =
                10005 * PriceScale
    /\ portfolios["p1"].balance_usd = 3002


\* every asset of pid with a nonzero position has a quote in the cache
\* younger than the TTL, in one category or the other
HeldQuotesFresh(pid) ==
    \A a \in HeldAssets(pid) : \E key \in KeysOf(a) : WithinTTL(key)

\* a step that is a recomputation
RecalcStep == last'.op = "recalc" /\ now' = now

\* C19: a recomputation that follows a successful one on the same ledger,
\* while every held asset still has a quote within its TTL in the cache,
\* succeeds, stores the same balance_usd and pnl_day_usd, and changes
\* nothing else: the ledger, the assets and the cache stay as they were.
C19_RecalcIdempotent ==
    [][(/\ Recalculated
        /\ last.status = 200
        /\ HeldQuotesFresh("p1")
        /\ RecalcStep)
       => /\ last'.status = 200
          /\ portfolios' = portfolios
          /\ assets' = assets
          /\ txs' = txs
          /\ cache' = cache]_vars


\* the quantities of asset a's committed transactions of the given types,
\* summed
QuantityOf(a, types) ==
    SumFn([t \in {u \in DOMAIN txs : txs[u].asset_id = a /\ txs[u].type \in types}
             |-> txs[t].quantity])

\* the committed transactions, folded in the order perm of their ids
FoldedIn(perm) ==
    FoldPositions([k \in 1..Cardinality(DOMAIN txs) |-> txs[perm[k]]], <<>>)

\* C20: the positions a recomputation folds are, for each asset with
\* transactions, (buy + transfer_in quantities) - (sell + transfer_out
\* quantities), negative when more went out than came in, and folding the
\* same transactions in any other order gives the same positions.
C20_FoldOrderIndependent ==
    Recalculated =>
       /\ DOMAIN last.run.pos = {txs[t].asset_id : t \in DOMAIN txs}
       /\ \A a \in DOMAIN last.run.pos :
             last.run.pos[a] = QuantityOf(a, {"buy", "transfer_in"})
                                - QuantityOf(a, {"sell", "transfer_out"})
       /\ \A perm \in Permutations(DOMAIN txs) : FoldedIn(perm) = last.run.pos

\* a transfer_out of 1 followed by a buy of 3 of the same asset folds to 2
C20_Witness ==
    /\ Recalculated
    /\ DOMAIN txs = {1, 2}
    /\ txs[1].asset_id = txs[2].asset_id
    /\ txs[1].type = "transfer_out"
    /\ txs[2].type = "buy"
    /\ last.run.pos[txs[1].asset_id] = 2


\* ------------------------------------------- mutation and recomputation
TxOps == {"add_transaction", "update_transaction", "delete_transaction"}

\* C21: when the recomputation started by add_transaction,
\* update_transaction or delete_transaction fails because the price source
\* refuses a lookup, the caller is answered 502 and the committed state is
\* what it was: the ledger change is not there and balance_usd and
\* pnl_day_usd both keep their values.
C21_FailedRecalcCommitsNothing ==
    [][(last'.op \in TxOps /\ last'.status = 502) =>
          /\ txs' = txs
          /\ assets' = assets
          /\ portfolios' = portfolios]_vars

\* an update_transaction on a portfolio with two holdings, one of them
\* valued, was answered 502
C21_Witness ==
    /\ Succeeded("update_transaction", 502)
    /\ Cardinality(HeldAssets("p1")) = 2
    /\ portfolios["p1"].balance_usd # 0


\* a committed transaction row obeys the handlers' rule: quantity > 0, and a
\* price on a buy or a sell
RowObeys(row) ==
    /\ row.quantity > 0
    /\ row.type \in {"buy", "sell"} => row.price_usd.kind # "absent"

\* C23: add_transaction and update_transaction never let a body with
\* quantity <= 0, or a buy/sell without price_usd, through: the row a
\* successful request leaves obeys the rule, and a request answered 400
\* changes nothing: the ledger (the targeted row included), the assets and
\* balance_usd/pnl_day_usd are what they were, and the price cache is
\* untouched, so no lookup was made.
C23_InvalidBodyRejected ==
    [][(last'.op \in {"add_transaction", "update_transaction"}) =>
          /\ last'.status \in {200, 201} =>
                /\ last'.tid \in DOMAIN txs'
                /\ RowObeys(txs'[last'.tid])
          /\ last'.status = 400 =>
                /\ txs' = txs
                /\ assets' = assets
                /\ portfolios' = portfolios
                /\ cache' = cache]_vars

\* an update of an existing transaction of a held asset was answered 400
C23_Witness ==
    /\ Succeeded("update_transaction", 400)
    /\ last.tid \in DOMAIN txs
    /\ RowObeys(txs[last.tid])
    /\ HeldAssets("p1") # {}


\* C27: a price lookup whose call to the price source raises (timeout,
\* transport failure) ends the request in 502, never in 404, in a quote or
\* in another status.
C27_TransportFailureIs502 ==
    [][TickerStep =>
        \A i \in DOMAIN last'.run.lookups :
           (last'.run.lookups[i].calls = 1
              /\ last'.run.lookups[i].got.kind = "raise")
           => last'.status = 502]_vars


\* ================================================================= the store
\* portfolios, assets and transactions created, cloned and deleted

\* ids a portfolio may get (uuid4)
StoreIds == {"p1", "p2", "p3"}

\* the authenticated caller of every request below; p2 belongs to someone
\* else
Me == "u1"

Visibilities == {"public", "private"}

PortfolioRow(user, kind, visibility, balance_usd, pnl_day_usd) ==
    [user_id |-> user, kind |-> kind, visibility |-> visibility,
     balance_usd |-> balance_usd, pnl_day_usd |-> pnl_day_usd]

AssetRow(pid, symbol) ==
    [portfolio_id |-> pid, symbol |-> symbol, display_name |-> symbol]

\* the caller's empty portfolio p1, and the portfolio p2 of another user,
\* public or private, holding 3 BTC valued at 30.02
InitStore ==
    /\ \E v \in Visibilities :
          portfolios = ("p1" :> PortfolioRow(Me, "personal", "private", 0, 0))
                       @@ ("p2" :> PortfolioRow("u2", "personal", v, 3002, 300))
    /\ assets = (3 :> AssetRow("p2", BTC))
    /\ txs = (MaxTx :> TxRow(3, [type |-> "buy", quantity |-> 3,
                                 price_usd |-> Num(100)]))
    /\ cache = <<>>
    /\ now = 0
    /\ req = [pc |-> "idle", user |-> Me, pid |-> "p1",
              r_unified |-> Raised, r_fund |-> Raised, r_ticks |-> Raised]
    /\ last = Answer("none", 0, "p1", NoId, NoResolved)

\* assets.portfolio_id ON DELETE CASCADE: the assets of the portfolios left
AssetsLeft(table, pids) ==
    [a \in {x \in DOMAIN table : table[x].portfolio_id \in pids} |-> table[a]]

\* the database without PRAGMA foreign_keys=ON: the transactions stay
TxsKept(table, aids) == table

\* tx.asset_id ON DELETE CASCADE: the transactions of the assets left
TxsLeft(table, aids) ==
    [t \in {x \in DOMAIN table : table[x].asset_id \in aids} |-> table[t]]

\* what a delete has removed besides its own row, as the steps of the
\* request: one "asset" for each asset, one "tx" for each transaction
Removed(n_assets, n_txs) ==
    [db_fail |-> 0,
     log |-> [i \in 1..n_assets |-> "asset"] \o [i \in 1..n_txs |-> "tx"]]

AnswerOfDelete(op, pid, assets_after, txs_after) ==
    AnswerOfRun(op, 204, pid, NoId, NoResolved, NoRow,
                Removed(Cardinality(DOMAIN assets \ DOMAIN assets_after)
                           - (IF op = "delete_asset" THEN 1 ELSE 0),
                        Cardinality(DOMAIN txs \ DOMAIN txs_after)))

\* POST /portfolios
create_portfolio(user, visibility) ==
    /\ Idle
    /\ StoreIds \ DOMAIN portfolios # {}
    /\ \E pid \in {CHOOSE p \in StoreIds \ DOMAIN portfolios : TRUE} :
          /\ portfolios' = (pid :> PortfolioRow(user, "personal", visibility, 0, 0))
                           @@ portfolios
          /\ last' = Answer("create_portfolio", 201, pid, NoId, NoResolved)
    /\ UNCHANGED <<assets, txs, cache, now, req>>

\* DELETE /portfolios/{pid}
delete_portfolio(user, pid) ==
    /\ Idle
    /\ UNCHANGED <<cache, now, req>>
    /\ IF ~POk(NewSession, pid, user)
       THEN Rejected("delete_portfolio", 404, pid, NoId)
       ELSE \E left \in {AssetsLeft(assets, DOMAIN portfolios \ {pid})} :
               /\ portfolios' = [p \in DOMAIN portfolios \ {pid} |-> portfolios[p]]
               /\ assets' = left
               /\ txs' = TxsLeft(txs, DOMAIN left)
               /\ last' = AnswerOfDelete("delete_portfolio", pid, assets', txs')

\* DELETE /portfolios/{pid}/assets/{aid}
delete_asset(user, pid, aid) ==
    /\ Idle
    /\ UNCHANGED <<portfolios, cache, now, req>>
    /\ IF ~AOk(NewSession, pid, aid, user)
       THEN /\ last' = Answer("delete_asset", 404, pid, NoId, NoResolved)
            /\ UNCHANGED <<assets, txs>>
       ELSE /\ assets' = [a \in DOMAIN assets \ {aid} |-> assets[a]]
            /\ txs' = TxsLeft(txs, DOMAIN assets \ {aid})
            /\ last' = AnswerOfDelete("delete_asset", pid, assets', txs')


\* lines 311-325: the source's assets copied into portfolio pid, one new row
\* each; map takes the source asset's id to the copy's
RECURSIVE CopyAssets(_, _, _, _)
CopyAssets(todo, table, map, pid) ==
    IF todo = <<>> THEN [assets |-> table, map |-> map]
    ELSE LET a == Head(todo)
             na == FreeId(DOMAIN table, AssetIds)
         IN CopyAssets(Tail(todo),
                       (na :> [table[a] EXCEPT !.portfolio_id = pid]) @@ table,
                       (a :> na) @@ map, pid)

\* lines 335-351: the source's transactions copied onto the copied assets
RECURSIVE CopyTxs(_, _, _, _)
CopyTxs(todo, source, table, map) ==
    IF todo = <<>> THEN table
    ELSE LET t == Head(todo)
         IN IF source[t].asset_id \notin DOMAIN map
            THEN CopyTxs(Tail(todo), source, table, map)
            ELSE CopyTxs(Tail(todo), source,
                         (FreeId(DOMAIN table, TxIds) :>
                             [source[t] EXCEPT !.asset_id = map[source[t].asset_id]])
                         @@ table,
                         map)

\* POST /portfolios/import, lines 292-355
import_portfolio(user, source_id) ==
    LET s == NewSession
        src_assets == QueryAssetIds(s, source_id)
        src_txs == QueryTxIds(s, source_id)
    IN /\ Idle
       /\ UNCHANGED <<cache, now, req>>
       /\ IF source_id \notin DOMAIN portfolios
          THEN Rejected("import_portfolio", 404, source_id, NoId)
          ELSE IF portfolios[source_id].visibility # "public"
          THEN Rejected("import_portfolio", 403, source_id, NoId)
          ELSE /\ StoreIds \ DOMAIN portfolios # {}
               /\ Cardinality(DOMAIN assets) + Len(src_assets)
                     <= Cardinality(AssetIds)
               /\ Cardinality(DOMAIN txs) + Len(src_txs) <= MaxTx
               /\ \E pid \in {CHOOSE p \in StoreIds \ DOMAIN portfolios : TRUE} :
                  \E copied \in {CopyAssets(src_assets, assets, <<>>, pid)} :
                     /\ portfolios' =
                           (pid :> PortfolioRow(user, "subscribed", "private",
                                       portfolios[source_id].balance_usd,
                                       portfolios[source_id].pnl_day_usd))
                           @@ portfolios
                     /\ assets' = copied.assets
                     /\ txs' = CopyTxs(src_txs, txs, txs, copied.map)
                     /\ last' = Answer("import_portfolio", 201, source_id, NoId,
                                       NoResolved)

\* the bodies of this part: a buy to add, a transfer out to update to
StoreBodies ==
    << [type |-> "buy", quantity |-> 3, price_usd |-> Num(100)],
       [type |-> "transfer_out", quantity |-> 1, price_usd |-> Absent] >>

StoreSymbolInputs == {<<"b", "t", "c">>, <<SP, "D", "o", "g", "e", SP>>}

\* the portfolios asset and transaction requests name: the caller's, the
\* other user's
TheirsAndMine == {"p1", "p2"}

\* the one snapshot reconciled in this part: 1000 DOGE at 0.0010
StoreRun ==
    <<Ok(<< <<Coin(DOGE, Num(1000))>> >>), Ok(<<>>), TicksWith(Num(10))>>

\* what the price source answers throughout this part
StoreMarket == Market("q", "q", "e", "q")

\* room for one more asset row
AssetRoom == Cardinality(DOMAIN assets) < Cardinality(AssetIds)

NextStore ==
    \/ create_portfolio(Me, "private")
    \/ \E pid \in StoreIds : delete_portfolio(Me, pid)
    \/ \E source_id \in StoreIds : import_portfolio(Me, source_id)
    \/ \E pid \in TheirsAndMine, raw \in StoreSymbolInputs :
          AssetRoom /\ add_asset(Me, pid, raw)
    \/ \E pid \in TheirsAndMine, aid \in AssetIds : delete_asset(Me, pid, aid)
    \/ \E pid \in TheirsAndMine, aid \in AssetIds :
          AddTransaction(Me, pid, aid, StoreBodies[1], StoreMarket)
    \/ \E pid \in TheirsAndMine, tid \in TxIds, aid \in AssetIds :
          UpdateTransaction(Me, pid, tid, aid, StoreBodies[2], StoreMarket)
    \/ \E pid \in TheirsAndMine, tid \in TxIds :
          DeleteTransaction(Me, pid, tid, StoreMarket)
    \/ \E pid \in TheirsAndMine :
          AssetRoom /\ import_bybit_keys_fetch(Me, pid, StoreRun[1], StoreRun[2],
                                               StoreRun[3])
    \/ import_bybit_keys(0, StoreMarket)

SpecStore == InitStore /\ [][NextStore]_vars


\* ----------------------------------------------------- the store's claims
\* the operations that take the portfolio id in their path and pass it to
\* _p_or_404, _a_or_404 or _t_or_404
OwnedOps ==
    {"delete_portfolio", "add_asset", "delete_asset", "add_transaction",
     "update_transaction", "delete_transaction", "import_bybit_keys"}

Missing(pid) == pid \notin DOMAIN portfolios

NotOwned(pid) == ~Missing(pid) /\ portfolios[pid].user_id # Me

NotPublic(pid) == ~Missing(pid) /\ portfolios[pid].visibility # "public"

\* the step answers a request that names pid
Names(pid) == last' # last /\ last'.pid = pid

LedgerUntouched ==
    portfolios' = portfolios /\ assets' = assets /\ txs' = txs

\* C22: a request naming a portfolio the caller does not own, or a source
\* of another user that is not public, is answered 404 as for a portfolio that does
\* not exist, and changes no row.
C22_OwnershipNotDisclosed ==
    [][\A pid \in StoreIds :
          /\ (Names(pid) /\ last'.op \in OwnedOps /\ (Missing(pid) \/ NotOwned(pid)))
                => (last'.status = 404 /\ LedgerUntouched)
          /\ (Names(pid) /\ last'.op = "import_portfolio"
                         /\ (Missing(pid) \/ (NotOwned(pid) /\ NotPublic(pid))))
                => (last'.status = 404 /\ LedgerUntouched)]_vars

\* the part of C22 that holds: the operations behind _p_or_404
OwnedOpsAnswer404 ==
    [][\A pid \in StoreIds :
          (Names(pid) /\ last'.op \in OwnedOps /\ (Missing(pid) \/ NotOwned(pid)))
             => (last'.status = 404 /\ LedgerUntouched)]_vars


\* the assets of portfolio pid that carry symbol
WithSymbol(table, pid, symbol) ==
    {a \in DOMAIN table :
        table[a].portfolio_id = pid /\ table[a].symbol = symbol}

\* uq_asset_portfolio_symbol over the committed rows
UniqueSymbols ==
    \A a, b \in DOMAIN assets :
       (assets[a].portfolio_id = assets[b].portfolio_id
          /\ assets[a].symbol = assets[b].symbol) => a = b

\* the step is an add_asset of the owner with a symbol the portfolio has
AddsDuplicate ==
    \E pid \in StoreIds, raw \in StoreSymbolInputs :
       /\ POk(NewSession, pid, Me)
       /\ WithSymbol(assets, pid, StripUpper(raw)) # {}
       /\ add_asset(Me, pid, raw)

\* every transaction the step adds sits on the asset that carried its
\* symbol before the step, where there was one
ReusesAssets ==
    \A t \in DOMAIN txs' \ DOMAIN txs :
       LET a == txs'[t].asset_id
       IN WithSymbol(assets, assets'[a].portfolio_id, assets'[a].symbol) # {}
             => a \in DOMAIN assets

\* C24: no portfolio holds two assets of one symbol, whatever add_asset,
\* reconciliation and cloning do; add_asset with a symbol the portfolio
\* already holds answers 409 and leaves the assets as they are; a
\* reconciliation puts its transaction on the asset already there.
C24_SymbolsUnique ==
    /\ []UniqueSymbols
    /\ [][/\ AddsDuplicate => (last'.status = 409 /\ assets' = assets)
          /\ (last'.op = "import_bybit_keys" /\ last'.status = 200)
                => ReusesAssets]_vars

\* a reconciliation has put its transfer_in on an asset that add_asset made
\* (no flush of a new asset in its steps), next to a cloned portfolio
C24_Witness ==
    /\ Succeeded("import_bybit_keys", 200)
    /\ last.run.log = <<"synth", "recalc", "commit">>
    /\ \E t \in DOMAIN txs :
          /\ txs[t].type = "transfer_in"
          /\ assets[txs[t].asset_id].portfolio_id = last.pid
    /\ \E p \in DOMAIN portfolios : portfolios[p].kind = "subscribed"

\* add_asset has answered 409
C24_Conflict == Succeeded("add_asset", 409)


\* the step is a delete_asset of the owner on an asset of pid whose net
\* position is not zero
DeletesHeldAsset(pid) ==
    \E aid \in AssetIds :
       /\ AOk(NewSession, pid, aid, Me)
       /\ aid \in HeldAssets(pid)
       /\ delete_asset(Me, pid, aid)

\* C28: after delete_asset has removed an asset with a nonzero net
\* position, the stored balance_usd and pnl_day_usd of the portfolio are the
\* valuation of the ledger that remains, at prices the source can answer.
C28_DeleteAssetRevalues ==
    [][\A pid \in StoreIds :
          DeletesHeldAsset(pid) =>
             \E ext \in ExtMarkets :
                StoredIsValuation(pid, Resolved(cache, now, ext))']_vars


\* every transaction sits on an asset and every asset in a portfolio
Integrity ==
    /\ \A t \in DOMAIN txs : txs[t].asset_id \in DOMAIN assets
    /\ \A a \in DOMAIN assets : assets[a].portfolio_id \in DOMAIN portfolios

\* the rows of the assets other than those in gone, and their transactions,
\* are after the step what they were
OthersKept(gone) ==
    /\ \A a \in DOMAIN assets \ gone : a \in DOMAIN assets' /\ assets'[a] = assets[a]
    /\ \A t \in DOMAIN txs :
          txs[t].asset_id \notin gone => (t \in DOMAIN txs' /\ txs'[t] = txs[t])

OwnAssets(pid) == {a \in DOMAIN assets : assets[a].portfolio_id = pid}

\* the step is a delete_portfolio of the owner
DeletesPortfolio(pid) == POk(NewSession, pid, Me) /\ delete_portfolio(Me, pid)

\* the step is a delete_asset of the owner
DeletesAsset(pid, aid) == AOk(NewSession, pid, aid, Me) /\ delete_asset(Me, pid, aid)

\* C29: every transaction belongs to an existing asset and every asset to
\* an existing portfolio, whatever sequence of requests is made; deleting an
\* asset removes its transactions, deleting a portfolio removes its assets
\* and their transactions, and the rows of the other portfolios stay.
C29_ReferentialIntegrity ==
    /\ []Integrity
    /\ [][\A pid \in StoreIds :
             /\ DeletesPortfolio(pid) =>
                   /\ \A a \in OwnAssets(pid) : a \notin DOMAIN assets'
                   /\ \A t \in DOMAIN txs :
                         txs[t].asset_id \in OwnAssets(pid) => t \notin DOMAIN txs'
                   /\ OthersKept(OwnAssets(pid))
                   /\ \A q \in DOMAIN portfolios \ {pid} :
                         q \in DOMAIN portfolios' /\ portfolios'[q] = portfolios[q]
             /\ \A aid \in AssetIds :
                   DeletesAsset(pid, aid) =>
                      /\ aid \notin DOMAIN assets'
                      /\ \A t \in DOMAIN txs :
                            txs[t].asset_id = aid => t \notin DOMAIN txs'
                      /\ OthersKept({aid})
                      /\ portfolios' = portfolios]_vars

\* a portfolio with an asset and a transaction has been deleted, and the
\* rows of another portfolio are still there
C29_Witness ==
    /\ Succeeded("delete_portfolio", 204)
    /\ last.run.log = <<"asset", "tx">>
    /\ last.pid \notin DOMAIN portfolios
    /\ DOMAIN txs # {}

\* an asset with a transaction has been deleted
C29_AssetCascade ==
    Succeeded("delete_asset", 204) /\ last.run.log = <<"tx">>


\* ------------------------------------------------- the sign of quantities
\* TxCreate bodies with a positive, a zero and a negative quantity
QuantityBodies ==
    { [type |-> "buy", quantity |-> 3, price_usd |-> Num(100)],
      [type |-> "transfer_in", quantity |-> 0, price_usd |-> Absent],
      [type |-> "transfer_out", quantity |-> 0 - 1, price_usd |-> Absent] }

\* what the exchange account reports for DOGE, priced 0.0010: 1000 coins, no
\* coins, a debt of 1000, 1000 in one wallet and a debt of 1000 in the
\* other, 1000 in one wallet and a debt of 2000 in the other
QuantityRuns ==
    { <<Ok(<< <<Coin(DOGE, Num(u))>> >>), Ok(f), TicksWith(Num(10))>> :
         u \in {1000, 0, 0 - 1000},
         f \in {<<>>, <<Coin(DOGE, Num(0 - 1000))>>, <<Coin(DOGE, Num(0 - 2000))>>} }

\* the balance the two wallets of the waiting reconciliation add up to
Reported(coin) ==
    LET h == Holdings(req.r_unified, req.r_fund)
        at == {k \in 1..Len(h) : h[k].coin = coin}
    IN IF at = {} THEN 0 ELSE h[CHOOSE k \in at : TRUE].bal

NextQuantity ==
    \/ \E raw \in StoreSymbolInputs : add_asset("u1", "p1", raw)
    \/ \E aid \in AssetIds, body \in QuantityBodies :
          AddTransaction("u1", "p1", aid, body, StoreMarket)
    \/ \E tid \in TxIds, aid \in AssetIds, body \in QuantityBodies :
          UpdateTransaction("u1", "p1", tid, aid, body, StoreMarket)
    \/ \E run \in QuantityRuns :
          import_bybit_keys_fetch("u1", "p1", run[1], run[2], run[3])
    \/ import_bybit_keys(0, StoreMarket)

SpecQuantity == Init /\ [][NextQuantity]_vars

\* the step answers a reconciliation whose source reported no DOGE or a
\* debt
ReconcilesNonPositive ==
    /\ req.pc = "fetched"
    /\ Reported(DOGE) <= 0
    /\ last'.op = "import_bybit_keys"

\* C30: every transaction of the ledger has a quantity above zero, whatever
\* add_transaction, update_transaction and the reconciliation are sent: a
\* body with a quantity of zero or less is answered 400 and a reconciliation
\* of a zero or negative balance adds no transaction.
C30_QuantitiesPositive ==
    /\ [](\A t \in DOMAIN txs : txs[t].quantity > 0)
    /\ [][/\ (last'.op \in {"add_transaction", "update_transaction"}
                /\ last'.status \in {200, 201})
                => txs'[last'.tid].quantity > 0
          /\ ReconcilesNonPositive
                => (last'.status = 200 /\ DOMAIN txs' = DOMAIN txs)]_vars

\* a reconciliation has answered 200 on a debt of 1000 DOGE while the
\* ledger holds a transaction
C30_Witness ==
    /\ Succeeded("import_bybit_keys", 200)
    /\ Reported(DOGE) < 0
    /\ last.run.log = <<"recalc", "commit">>
    /\ DOMAIN txs # {}

\* add_transaction has refused a body
C30_Refused == Succeeded("add_transaction", 400)


\* ------------------------------------------- fetch_ticker, thread by thread
\* The handlers are plain `def` functions, which the server runs in its
\* thread pool: several fetch_ticker calls for one key run at once, each
\* with its own `now`, `hit`, `r` and `data`, sharing only _cache.  Here req
\* holds the threads and last the order in which they wrote.
MaxFetchers == 3

Fetchers == 1..MaxFetchers

\* the key all of them ask for
FetchKey == <<"spot", Pair(BTC)>>

\* what the price source may answer to one of the calls
FetchHows == {"q", "p", "e", "x", "r"}

Fetcher(pc, t, data, out) == [pc |-> pc, now |-> t, data |-> data, out |-> out]

InitFetch ==
    /\ portfolios = [p \in {"p1"} |->
                       [user_id |-> "u1", balance_usd |-> 0, pnl_day_usd |-> 0]]
    /\ assets = <<>>
    /\ txs = <<>>
    /\ cache = <<>>
    /\ now = 0
    /\ req = [th \in Fetchers |-> Fetcher("idle", 0, NoData, "none")]
    /\ last = [op |-> "fetch_ticker", written |-> <<>>]

\* the entry keeps the timestamp it had and takes the new quote
StoredFieldwise(c, key, ts, data) ==
    IF key \in DOMAIN c
    THEN (key :> [ts |-> c[key].ts, data |-> data]) @@ c
    ELSE (key :> [ts |-> ts, data |-> data]) @@ c

\* line 72, `_cache[key] = (now, data)`: one assignment of one tuple
Stored(c, key, ts, data) == (key :> [ts |-> ts, data |-> data]) @@ c

\* lines 39-43: the clock is read, the cache is looked up
fetch_begin(th) ==
    /\ req[th].pc = "idle"
    /\ req' = [req EXCEPT ![th] =
                 IF Fresh(cache, now, FetchKey)
                 THEN Fetcher("done", now, cache[FetchKey].data, "hit")
                 ELSE Fetcher("calling", now, NoData, "none")]
    /\ UNCHANGED <<portfolios, assets, txs, cache, now, last>>

\* lines 45-70: the external call returns r, the answer is checked and the
\* quote is built
fetch_call(th, r) ==
    /\ req[th].pc = "calling"
    /\ req' = [req EXCEPT ![th] =
                 IF r.kind = "raise" THEN [@ EXCEPT !.pc = "done", !.out = "raise"]
                 ELSE IF Refused(r) THEN [@ EXCEPT !.pc = "done", !.out = "err502"]
                 ELSE IF r.list = <<>> THEN [@ EXCEPT !.pc = "done", !.out = "none"]
                 ELSE [@ EXCEPT !.pc = "got",
                                !.data = [lastPrice |-> OrZero(r.list[1].lastPrice),
                                          price24hPcnt |->
                                             OrZero(r.list[1].price24hPcnt)]]]
    /\ UNCHANGED <<portfolios, assets, txs, cache, now, last>>

\* lines 72-73: the record is written and the ticker returned
fetch_store(th) ==
    /\ req[th].pc = "got"
    /\ cache' = Stored(cache, FetchKey, req[th].now, req[th].data)
    /\ req' = [req EXCEPT ![th] = [@ EXCEPT !.pc = "done", !.out = "ticker"]]
    /\ last' = [last EXCEPT !.written = Append(@, th)]
    /\ UNCHANGED <<portfolios, assets, txs, now>>

NextFetch ==
    \/ \E th \in Fetchers : fetch_begin(th)
    \/ \E th \in Fetchers, how \in FetchHows :
          fetch_call(th, Answers(FetchKey, how))
    \/ \E th \in Fetchers : fetch_store(th)
    \/ Tick

SpecFetch == InitFetch /\ [][NextFetch]_vars

\* the record thread th built: its own timestamp with its own quote
RecordOf(th) == [ts |-> req[th].now, data |-> req[th].data]

Writers == {last.written[i] : i \in 1..Len(last.written)}

\* no fetch is between its lookup and its return
AllReturned == \A th \in Fetchers : req[th].pc \in {"idle", "done"}

\* C25: while several fetch_ticker calls for one key miss and fetch at the
\* same time, what the cache holds under the key is at every moment the
\* whole record of one of the fetches that wrote, and once none of them is
\* outstanding it is the record of the one that wrote last.
C25_WholeRecordLastWriterWins ==
    /\ FetchKey \in DOMAIN cache =>
          \E th \in Writers : cache[FetchKey] = RecordOf(th)
    /\ (AllReturned /\ last.written # <<>>) =>
          cache[FetchKey] = RecordOf(last.written[Len(last.written)])

\* two fetches missed together, fetched different quotes at different times
\* and both wrote; the one that started first wrote last
C25_Witness ==
    /\ AllReturned
    /\ Len(last.written) >= 2
    /\ LET first == last.written[1]
           second == last.written[2]
       IN /\ req[first].data # req[second].data
          /\ req[second].now < req[first].now


\* ------------------------------------ a reconciliation with other requests
\* The handlers are plain `def` functions run in the server's thread pool,
\* each with the Session get_db made for it; nothing in the code serialises
\* two requests on one portfolio.  Here the reconciliation is followed step
\* by step, and the ledger handlers run whole between its steps.  The
\* portfolio already has the assets the account reports, so the loop of
\* lines 453-490 flushes nothing and its transactions wait in the session
\* until db.commit(): the run holds no lock of the database meanwhile.
InitRace ==
    /\ portfolios = [p \in {"p1"} |->
                       [user_id |-> "u1", balance_usd |-> 0, pnl_day_usd |-> 0]]
    /\ assets = (1 :> AssetRow("p1", DOGE)) @@ (2 :> AssetRow("p1", BTC))
    /\ txs = <<>>
    /\ cache = <<>>
    /\ now = 0
    /\ req = [pc |-> "idle", user |-> "u1", pid |-> "p1",
              r_unified |-> Raised, r_fund |-> Raised, r_ticks |-> Raised,
              pending |-> <<>>]
    /\ last = Answer("none", 0, "p1", NoId, NoResolved)

\* lines 421-490: the holdings, the prices, asset_by_symbol and the loop;
\* what it added to the session is kept for the steps that follow
import_synthesize ==
    LET s == NewSession
        loop == ImportLoop(Holdings(req.r_unified, req.r_fund),
                  Prices(req.r_ticks.list, <<>>), req.pid, 0,
                  [sess |-> s, asset_by_symbol |-> AssetBySymbol(s, req.pid),
                   log |-> <<>>, calls |-> 0, status |-> "ok"])
    IN /\ req.pc = "fetched"
       /\ \E st \in {loop} :
             /\ st.calls = 0
             /\ req' = [req EXCEPT !.pc = "synthesized",
                                   !.pending = st.sess.new_txs]
       /\ UNCHANGED <<portfolios, assets, txs, cache, now, last>>

\* lines 493-497: the recomputation, on the rows committed by now, and the
\* commit of the transactions synthesized and of the totals
import_recalculate(ext) ==
    LET s == [NewSession EXCEPT !.new_txs = req.pending]
        answer(status, resolved) ==
            AnswerOfRun("import_bybit_keys", status, req.pid, NoId, resolved,
                        NoRow, [db_fail |-> 0,
                                log |-> [i \in 1..Len(req.pending) |-> "synth"]
                                           \o <<"recalc", "commit">>])
    IN /\ req.pc = "synthesized"
       /\ req' = [req EXCEPT !.pc = "idle", !.pending = <<>>]
       /\ UNCHANGED now
       /\ \E rc \in {Recalc(s, req.pid, cache, now, ext)} :
             /\ cache' = rc.cache
             /\ IF rc.status # "ok"
                THEN /\ last' = answer(StatusOfRaise(rc.status), NoResolved)
                     /\ Rollback(rc.sess)
                ELSE /\ last' = answer(200, Resolved(cache, now, ext))
                     /\ Commit(rc.sess)

\* room in the tx table for one more row beside those of the waiting run
RoomBeside ==
    Cardinality(DOMAIN txs)
       + (IF req.pc = "fetched"
          THEN ToSynthesize(Holdings(req.r_unified, req.r_fund),
                            Prices(req.r_ticks.list, <<>>))
          ELSE Len(req.pending)) < MaxTx

NextRace ==
    \/ \E run \in {StoreRun} :
          import_bybit_keys_fetch("u1", "p1", run[1], run[2], run[3])
    \/ import_synthesize
    \/ import_recalculate(StoreMarket)
    \/ \E aid \in AssetIds, body \in {StoreBodies[1], StoreBodies[2]} :
          RoomBeside /\ AddTransactionNow("u1", "p1", aid, body, StoreMarket)
    \/ \E tid \in TxIds, aid \in AssetIds, body \in {StoreBodies[1], StoreBodies[2]} :
          UpdateTransactionNow("u1", "p1", tid, aid, body, StoreMarket)
    \/ \E tid \in TxIds : DeleteTransactionNow("u1", "p1", tid, StoreMarket)

SpecRace == InitRace /\ [][NextRace]_vars

Committed == {200, 201, 204}

\* the reconciliation has synthesized a transaction and has not finished
\* its recomputation
Synthesizing == req.pc = "synthesized" /\ req.pending # <<>>

\* the step is a ledger request on the portfolio of the waiting run that
\* went through its recomputation
RecalculatesBeside ==
    /\ req'.pc = "synthesized"
    /\ last'.op \in TxOps
    /\ last'.pid = req.pid
    /\ last'.status \in Committed

\* C26: while a reconciliation of P is between its first synthesized
\* transaction and the end of its recomputation, no other request
\* recomputes P; so when every request has committed, the stored totals of P
\* are the valuation of the ledger committed.
C26_RecalcNotDuringSynthesis ==
    /\ [][Synthesizing => ~RecalculatesBeside]_vars
    /\ []((Idle /\ last.status \in Committed) =>
             StoredIsValuation(last.pid, Resolved(cache, now, StoreMarket)))

\* the first half of C26 alone
C26_Exclusion == [][Synthesizing => ~RecalculatesBeside]_vars


\* ------------------------------------------------ numeric fields at ingress
\* what the price source answers in this part: BTC spot listed with a blank
\* 24h change, or with a malformed price; DOGE on linear only, without its
\* 24h change.  No lookup is refused and none fails in transport.
IngressMarkets == { Market("p", "q", "e", "q"), Market("b", "q", "e", "q") }

\* what the exchange account answers in this part: the DOGE balance or the
\* DOGE price a decimal string, missing, empty or malformed
IngressFields == {Num(1000), Absent, Blank, Bad}

IngressRun(bal, px) ==
    <<Ok(<< <<Coin(DOGE, bal)>> >>), Ok(<<>>), TicksWith(px)>>

IngressRuns ==
    {IngressRun(bal, Num(10)) : bal \in IngressFields}
       \cup {IngressRun(Num(1000), px) : px \in {Absent, Blank, Bad}}

NextIngress ==
    \/ \E raw \in StoreSymbolInputs : add_asset("u1", "p1", raw)
    \/ \E aid \in AssetIds, ext \in IngressMarkets :
          AddTransaction("u1", "p1", aid, StoreBodies[1], ext)
    \/ \E tid \in TxIds, aid \in AssetIds, ext \in IngressMarkets :
          UpdateTransaction("u1", "p1", tid, aid, StoreBodies[2], ext)
    \/ \E tid \in TxIds, ext \in IngressMarkets :
          DeleteTransaction("u1", "p1", tid, ext)
    \/ \E run \in IngressRuns :
          import_bybit_keys_fetch("u1", "p1", run[1], run[2], run[3])
    \/ \E ext \in IngressMarkets : import_bybit_keys(0, ext)

SpecIngress == Init /\ [][NextIngress]_vars

\* C31: whatever numeric field of an upstream answer is absent, blank or
\* malformed, it counts as zero and no request ends in an exception: with a
\* price source that answers every lookup and a database that takes every
\* write, neither the reconciliation nor a request that recomputes is
\* answered 500.
C31_NumericFieldsCoerced == last.status # 500

\* the reconciliation alone never ends in an exception
C31_ReconciliationCoerces ==
    [][(req.pc = "fetched" /\ req'.pc = "idle"
          /\ HeldAssets(req.pid) = {}) => last'.status = 200]_vars

\* a recomputation has read a quote whose 24h change was sent blank and has
\* valued the holding with a change of zero
C31_BlankIsZero ==
    /\ Succeeded("update_transaction", 200)
    /\ HeldAssets("p1") # {}
    /\ portfolios["p1"].balance_usd # 0
    /\ portfolios["p1"].pnl_day_usd = 0


\* ---------------------------------------------------- lookups that find nothing
\* the cache keys of asset a's pair that the run looked up
LookedUp(run, a) == {k \in DOMAIN run.keys : run.keys[k] \in KeysOf(a)}

\* the run asked spot and, straight after it, linear for asset a's pair
SpotThenLinear(run, a) ==
    \E k \in DOMAIN run.keys :
       /\ k + 1 \in DOMAIN run.keys
       /\ run.keys[k] = <<"spot", Pair(assets[a].symbol)>>
       /\ run.keys[k + 1] = <<"linear", Pair(assets[a].symbol)>>

\* the entry under key, if any, is after the step what it was before
EntryKept(key) ==
    /\ key \in DOMAIN cache' <=> key \in DOMAIN cache
    /\ key \in DOMAIN cache => cache'[key] = cache[key]

\* C32: a lookup that the source answers with an empty list yields no quote
\* and no error, and leaves the cache as it was, an expired entry included;
\* so the key is still not fresh and its next lookup calls the source again.
\* A recomputation makes exactly two calls, spot then linear, for each held
\* asset that neither category lists, and one call for every other key it
\* looks up that is not fresh.
C32_NotFoundNotCached ==
    [][(RecalcStep /\ last'.status = 200) =>
          /\ \A a \in Unpriced("p1")' :
                /\ Cardinality(LookedUp(last'.run, a)) = 2
                /\ SpotThenLinear(last'.run, a)
                /\ \A key \in KeysOf(a) :
                      /\ ~Fresh(cache, now, key)
                      /\ EntryKept(key)
                      /\ ~Fresh(cache', now', key)
          /\ last'.run.calls =
                Cardinality({k \in DOMAIN last'.run.keys :
                                ~Fresh(cache, now, last'.run.keys[k])})]_vars

\* a held asset that was quoted and cached is, a TTL later, listed nowhere:
\* the recomputation made its two calls and the expired entry is still there
C32_Witness ==
    /\ Succeeded("recalc", 200)
    /\ last.run.calls = 2
    /\ \E a \in Unpriced("p1") :
          \E key \in KeysOf(a) :
             /\ key \in DOMAIN cache
             /\ now - cache[key].ts >= TTL
             /\ key \in DOMAIN last.run.before
             /\ cache[key] = last.run.before[key]

====
